---- MODULE Spec2Model ----
(***************************************************************************)
(* Model of Dugy/serialisable: the NaN-boxed JSON value                    *)
(* (serialisable_polymorphic.hpp), its text codec (JSONformat) and the     *)
(* condensed binary codec (CondensedJSON).                                 *)
(*                                                                         *)
(* Machine words are kept at their width.  A 64-bit word is a sequence of  *)
(* 8 bytes, least significant byte first; bit-level work is done on        *)
(* sequences of bits, least significant bit first.                         *)
(***************************************************************************)
EXTENDS Integers, Sequences, FiniteSets, TLC

VARIABLES
    build,       \* what the build fixes: [charSigned, preferred, fpConv, hashOrder]
    pc,          \* position of the caller
    input,       \* the Value (or std::string) handed to the library
    mapping,     \* CondensedJSON: shape descriptor -> dictionary index
    named,       \* history: the shape descriptors written out in full
    buffer,      \* bytes (binary codec) or characters (text codec) produced
    decoded,     \* outcome of decoding the buffer
    handles,     \* the caller's JSON handles: name -> _contents
    heap,        \* the blocks allocated for long strings, arrays and objects
    called,      \* history: the last call made on a handle and its outcome
    aliased,     \* history: the pairs of handles made by copying a container
    saving,      \* preferencesSaving_: the description routine saves (else loads)
    json,        \* the JSON value a description routine or a Serialiser works on
    slot         \* the caller's field handed to synch() or to a Serialiser

codecVars == <<build, input, mapping, named, buffer, decoded>>
heapVars == <<handles, heap, called, aliased>>
fieldVars == <<saving, json, slot>>
vars == <<pc, codecVars, heapVars, fieldVars>>

----------------------------------------------------------------------------
(* Bits and bytes *)

Byte == 0..255

Pow2(n) == 2^n

\* bit i (0 = least significant) of byte b
BitAt(b, i) == (b \div Pow2(i)) % 2

\* the bits of a byte sequence, least significant first
BitsOfBytes(bs) ==
    [i \in 1..(8 * Len(bs)) |-> BitAt(bs[((i - 1) \div 8) + 1], (i - 1) % 8)]

\* the byte made of bits[from+1 .. from+8]
ByteOfBits(bits, from) ==
    bits[from + 1] + 2 * bits[from + 2] + 4 * bits[from + 3] + 8 * bits[from + 4]
    + 16 * bits[from + 5] + 32 * bits[from + 6] + 64 * bits[from + 7]
    + 128 * bits[from + 8]

BytesOfBits(bits) ==
    [j \in 1..(Len(bits) \div 8) |-> ByteOfBits(bits, 8 * (j - 1))]

\* the number held by a short bit sequence (at most 30 bits)
RECURSIVE BitsVal(_)
BitsVal(bits) ==
    IF bits = <<>> THEN 0 ELSE Head(bits) + 2 * BitsVal(Tail(bits))

\* bits lo..hi (0-based, inclusive) of a word, as a number
Field(bits, lo, hi) == BitsVal(SubSeq(bits, lo + 1, hi + 1))

\* n (0 <= n < 2^31) as a word of w bits
BitsOfNat(n, w) ==
    [i \in 1..w |-> IF i <= 31 THEN (n \div Pow2(i - 1)) % 2 ELSE 0]

Zeros(w) == [i \in 1..w |-> 0]
Ones(w) == [i \in 1..w |-> 1]

AnyBit(bits, lo, hi) == \E i \in (lo + 1)..(hi + 1) : bits[i] = 1

\* bitwise or / and of two bytes
ByteOr(a, b) ==
    ByteOfBits([i \in 1..8 |-> IF BitAt(a, i - 1) = 1 \/ BitAt(b, i - 1) = 1
                               THEN 1 ELSE 0], 0)
ByteAnd(a, b) ==
    ByteOfBits([i \in 1..8 |-> IF BitAt(a, i - 1) = 1 /\ BitAt(b, i - 1) = 1
                               THEN 1 ELSE 0], 0)

\* the least element of a non-empty set of numbers
Least(S) == CHOOSE x \in S : \A y \in S : x <= y

\* word + 1, wrapping at the word's width: the bits below the lowest zero
\* bit are cleared and that bit is set
IncBits(bits) ==
    LET zeros == {i \in 1..Len(bits) : bits[i] = 0} IN
    IF zeros = {} THEN Zeros(Len(bits))
    ELSE [i \in 1..Len(bits) |-> IF i < Least(zeros) THEN 0
                                 ELSE IF i = Least(zeros) THEN 1
                                 ELSE bits[i]]

NotBits(bits) == [i \in 1..Len(bits) |-> 1 - bits[i]]

\* two's complement negation
NegBits(bits) == IncBits(NotBits(bits))

\* unsigned comparison of two words of the same width
ULess(a, b) ==
    \E i \in 1..Len(a) :
        /\ a[i] < b[i]
        /\ \A j \in (i + 1)..Len(a) : a[j] = b[j]

\* signed (two's complement) comparison of two words of the same width
SLess(a, b) ==
    LET n == Len(a) IN
    IF a[n] # b[n] THEN a[n] = 1 ELSE ULess(a, b)

\* index (0-based) of the highest set bit, -1 when the word is zero
TopBit(bits) ==
    LET ones == {i \in 1..Len(bits) : bits[i] = 1} IN
    IF ones = {} THEN -1
    ELSE (CHOOSE i \in ones : \A j \in ones : j <= i) - 1

\* a signed number in -2^30 .. 2^30 as a 64-bit two's complement word
Int64Of(n) ==
    IF n >= 0 THEN BitsOfNat(n, 64) ELSE NegBits(BitsOfNat(0 - n, 64))

----------------------------------------------------------------------------
(* IEEE-754 words.  A double is a 64-bit word: bits 0..51 mantissa,        *)
(* 52..62 biased exponent, 63 sign.  A float is a 32-bit word: 0..22       *)
(* mantissa, 23..30 exponent, 31 sign.                                     *)

DSign(d) == d[64]
DExp(d) == Field(d, 52, 62)
DMant(d) == SubSeq(d, 1, 52)
MkDouble(sign, exp, mant) == mant \o BitsOfNat(exp, 11) \o <<sign>>

IsNaN(d) == DExp(d) = 2047 /\ DMant(d) # Zeros(52)
IsZero(d) == DExp(d) = 0 /\ DMant(d) = Zeros(52)
IsFinite(d) == DExp(d) # 2047

\* operator== on doubles
DoubleEq(a, b) ==
    /\ ~IsNaN(a)
    /\ ~IsNaN(b)
    /\ \/ a = b
       \/ IsZero(a) /\ IsZero(b)

\* fabs
Fabs(d) == SubSeq(d, 1, 63) \o <<0>>

\* operator< on two non-negative doubles (false when either is NaN)
DLessPos(a, b) == ~IsNaN(a) /\ ~IsNaN(b) /\ ULess(a, b)

\* Drop the low sh bits of a word, rounding to nearest, ties to even.  The
\* result has one more bit than what is kept, for the carry.
RoundShift(bits, sh) ==
    LET kept == SubSeq(bits, sh + 1, Len(bits)) \o <<0>>
        r == IF sh >= 1 THEN bits[sh] ELSE 0
        st == sh >= 2 /\ AnyBit(bits, 0, sh - 2)
    IN IF r = 1 /\ (st \/ kept[1] = 1) THEN IncBits(kept) ELSE kept

INT64_MIN == Zeros(63) \o <<1>>
INT64_MAX == Ones(63) \o <<0>>

\* static_cast<int64_t>(double).  Truncation; a value outside the range of
\* int64_t is undefined behaviour, and the result is what the build's
\* conversion instruction gives: the "integer indefinite" value on x86-64
\* (cvttsd2si), saturation (0 for NaN) on AArch64 (fcvtzs).
DoubleToInt64(d, fpConv) ==
    LET e == DExp(d) - 1023
        mag == [i \in 1..64 |->
                 LET j == (i - 1) + 52 - e IN
                 IF j < 0 \/ j > 52 THEN 0 ELSE IF j = 52 THEN 1 ELSE d[j + 1]]
    IN IF e < 0 THEN Zeros(64)
       ELSE IF e <= 62 THEN (IF DSign(d) = 1 THEN NegBits(mag) ELSE mag)
       ELSE IF e = 63 /\ DSign(d) = 1 /\ DMant(d) = Zeros(52) THEN INT64_MIN
       ELSE IF fpConv = "indefinite" THEN INT64_MIN
       ELSE IF IsNaN(d) THEN Zeros(64)
       ELSE IF DSign(d) = 1 THEN INT64_MIN ELSE INT64_MAX

\* static_cast<double>(uint64_t), with the sign given apart
UIntToDouble(sign, mag) ==
    LET p == TopBit(mag) IN
    IF p = -1 THEN Zeros(64)
    ELSE IF p <= 52
    THEN MkDouble(sign, 1023 + p,
                  [j \in 1..52 |-> LET k == (j - 1) + p - 52 IN
                                   IF k < 0 THEN 0 ELSE mag[k + 1]])
    ELSE LET q == RoundShift(SubSeq(mag, 1, p + 1), p - 52) IN
         IF q[54] = 1 THEN MkDouble(sign, 1023 + p + 1, Zeros(52))
         ELSE MkDouble(sign, 1023 + p, SubSeq(q, 1, 52))

\* static_cast<double>(int64_t)
Int64ToDouble(w) ==
    IF w[64] = 1 THEN UIntToDouble(1, NegBits(w)) ELSE UIntToDouble(0, w)

\* static_cast<double>(an integer of width Len(w)), signed or unsigned
IntToDouble(w, signed) ==
    LET n == Len(w)
        ext == w \o [i \in 1..(64 - n) |-> IF signed THEN w[n] ELSE 0]
    IN IF signed THEN Int64ToDouble(ext) ELSE UIntToDouble(0, ext)

\* static_cast<float>(double), round to nearest even
DoubleToFloat(d) ==
    LET fexp == DExp(d) - 1023 + 127
        S == DMant(d) \o <<1>>
    IN IF DExp(d) = 2047
       THEN SubSeq(d, 30, 52) \o Ones(8) \o <<DSign(d)>>
       ELSE IF DExp(d) = 0 THEN Zeros(31) \o <<DSign(d)>>
       ELSE IF fexp >= 1
       THEN LET q == RoundShift(S, 29)
                fe == IF q[25] = 1 THEN fexp + 1 ELSE fexp
                fm == IF q[25] = 1 THEN Zeros(23) ELSE SubSeq(q, 1, 23)
            IN IF fe >= 255 THEN Zeros(23) \o Ones(8) \o <<DSign(d)>>
               ELSE fm \o BitsOfNat(fe, 8) \o <<DSign(d)>>
       ELSE LET sh == 29 + 1 - fexp IN
            IF sh > 53 THEN Zeros(31) \o <<DSign(d)>>
            ELSE LET q == RoundShift(S, sh) IN
                 q \o Zeros(31 - Len(q)) \o <<DSign(d)>>

\* static_cast<double>(float): exact
FloatToDouble(f) ==
    LET fe == Field(f, 23, 30)
        fm == SubSeq(f, 1, 23)
        p == TopBit(fm)
    IN IF fe = 255 THEN MkDouble(f[32], 2047, Zeros(29) \o fm)
       ELSE IF fe = 0
       THEN (IF p = -1 THEN Zeros(63) \o <<f[32]>>
             ELSE MkDouble(f[32], 1023 + p - 149,
                           [j \in 1..52 |-> LET k == (j - 1) + p - 52 IN
                                            IF k < 0 THEN 0 ELSE fm[k + 1]]))
       ELSE MkDouble(f[32], fe - 127 + 1023, Zeros(29) \o fm)

\* std::numeric_limits<float>::max() and ::min(), as doubles
FLT_MAX == BitsOfBytes(<<0, 0, 0, 224, 255, 255, 239, 71>>)
FLT_MIN == BitsOfBytes(<<0, 0, 0, 0, 0, 0, 16, 56>>)


----------------------------------------------------------------------------
(* ISerialisable::JSON: one 64-bit word, _contents, read either as a       *)
(* double or, when its top 16 bits are one of the InternalType prefixes,   *)
(* as another kind.  _contents is modelled as its 8 bytes, least           *)
(* significant first; bytes 7 and 8 of the sequence are the TYPE_MASK      *)
(* part.                                                                   *)

STRING_BREAKPOINT == 6

InternalType ==
    [NIL |-> <<248, 255>>, BOOLEAN |-> <<249, 255>>,
     SHORT_STRING |-> <<250, 255>>, LONG_STRING |-> <<251, 255>>,
     OBJECT |-> <<252, 255>>, ARRAY |-> <<253, 255>>]

NAN_VALUE == <<255, 255, 255, 255, 255, 255, 255, 127>>

\* _contents & TYPE_MASK
TypePrefix(c) == <<c[7], c[8]>>

\* usesHeap()
usesHeap(c) ==
    TypePrefix(c) \in {InternalType.LONG_STRING, InternalType.OBJECT,
                       InternalType.ARRAY}

\* type()
type(c) ==
    LET prefix == TypePrefix(c) IN
    IF prefix = InternalType.NIL THEN "NIL"
    ELSE IF prefix = InternalType.BOOLEAN THEN "BOOL"
    ELSE IF prefix \in {InternalType.SHORT_STRING, InternalType.LONG_STRING}
    THEN "STRING"
    ELSE IF prefix = InternalType.OBJECT THEN "OBJECT"
    ELSE IF prefix = InternalType.ARRAY THEN "ARRAY"
    ELSE "NUMBER"

\* setNull()
setNull == <<0, 0, 0, 0, 0, 0>> \o InternalType.NIL

\* setBoolean(value)
setBoolean(value) ==
    <<IF value THEN 1 ELSE 0, 0, 0, 0, 0, 0>> \o InternalType.BOOLEAN

\* setNumber(value): value is the double's 64-bit word
setNumber(value) ==
    IF DoubleEq(value, value) THEN BytesOfBits(value) ELSE NAN_VALUE

\* uint64_t(ch) << (8 * at), as 8 bytes: a char with the high bit set is
\* sign-extended when the build's char is signed
CharShifted(ch, at, charSigned) ==
    [j \in 1..8 |-> IF j = at + 1 THEN ch
                    ELSE IF j > at + 1 /\ charSigned /\ ch >= 128 THEN 255
                    ELSE 0]

WordOr(a, b) == [j \in 1..8 |-> ByteOr(a[j], b[j])]

\* setString(value), the short branch: value.size() <= STRING_BREAKPOINT
RECURSIVE setShortStringFrom(_, _, _, _)
setShortStringFrom(c, value, i, charSigned) ==
    IF i > Len(value) THEN c
    ELSE setShortStringFrom(WordOr(c, CharShifted(value[i], i - 1, charSigned)),
                            value, i + 1, charSigned)

setShortString(value, charSigned) ==
    setShortStringFrom(<<0, 0, 0, 0, 0, 0>> \o InternalType.SHORT_STRING,
                       value, 1, charSigned)

\* string(), the short branch: up to STRING_BREAKPOINT letters, to the
\* first zero
RECURSIVE shortStringFrom(_, _)
shortStringFrom(c, i) ==
    IF i > STRING_BREAKPOINT \/ c[i] = 0 THEN <<>>
    ELSE <<c[i]>> \o shortStringFrom(c, i + 1)

shortString(c) == shortStringFrom(c, 1)

(* A Value as the codecs see it through type() and the typed accessors:    *)
(*   [t |-> "NIL"], [t |-> "BOOL", b], [t |-> "NUMBER", n] (n: _contents), *)
(*   [t |-> "STRING", s] (s: bytes), [t |-> "ARRAY", a] (a: sequence),     *)
(*   [t |-> "OBJECT", o] (o: function from key bytes to Values).           *)

\* a C string: the bytes before the first zero byte
UpToZero(bytes) ==
    LET zeros == {i \in 1..Len(bytes) : bytes[i] = 0} IN
    IF zeros = {} THEN bytes ELSE SubSeq(bytes, 1, Least(zeros) - 1)

\* what a word that does not use the heap reads as
ViewOfWord(c) ==
    CASE type(c) = "NIL" -> [t |-> "NIL"]
      [] type(c) = "BOOL" -> [t |-> "BOOL", b |-> (c[1] % 2 = 1)]
      [] type(c) = "STRING" -> [t |-> "STRING", s |-> shortString(c)]
      [] OTHER -> [t |-> "NUMBER", n |-> c]

\* JSON(), JSON(bool), JSON(T) for arithmetic T, JSON(const std::string&)
JSONnull == ViewOfWord(setNull)
JSONbool(value) == ViewOfWord(setBoolean(value))
JSONnumber(value) == ViewOfWord(setNumber(value))
\* (the long branch copies with strcpy: up to the first zero byte)
JSONstring(value, charSigned) ==
    IF Len(value) <= STRING_BREAKPOINT
    THEN ViewOfWord(setShortString(value, charSigned))
    ELSE [t |-> "STRING", s |-> UpToZero(value)]
JSONarray(elements) == [t |-> "ARRAY", a |-> elements]
JSONobject(members) == [t |-> "OBJECT", o |-> members]

\* number(): the double held by a NUMBER
number(v) == BitsOfBytes(v.n)

(* ISerialisable::JSON::String, the key type of ObjectType: up to          *)
(* BREAKPOINT bytes live in the word itself, first byte in the top byte.   *)

BREAKPOINT == 8

\* uint64_t(ch) << offsetOfCharacter(index), as 8 bytes (byte 8 is the top)
KeyCharShifted(ch, index, charSigned) ==
    [j \in 1..8 |-> IF j = 8 - index THEN ch
                    ELSE IF j > 8 - index /\ charSigned /\ ch >= 128 THEN 255
                    ELSE 0]

RECURSIVE StringLocalFrom(_, _, _, _)
StringLocalFrom(c, from, i, charSigned) ==
    IF i > Len(from) THEN c
    ELSE StringLocalFrom(WordOr(c, KeyCharShifted(from[i], i - 1, charSigned)),
                         from, i + 1, charSigned)

\* operator std::string() of a local String: from the top byte down, to
\* the first zero
RECURSIVE StringLocalRead(_, _)
StringLocalRead(c, j) ==
    IF j < 1 \/ c[j] = 0 THEN <<>>
    ELSE <<c[j]>> \o StringLocalRead(c, j - 1)

\* isLocal()
isLocal(c) == c = <<0, 0, 0, 0, 0, 0, 0, 0>> \/ c[8] # 0

\* String(const std::string&): the word, and for a string longer than
\* BREAKPOINT the heap block makeHeap copied (the word is then its address,
\* whose top byte is zero)
StringFrom(from, charSigned) ==
    IF Len(from) <= BREAKPOINT
    THEN [c |-> StringLocalFrom(<<0, 0, 0, 0, 0, 0, 0, 0>>, from, 1, charSigned),
          remote |-> <<>>]
    ELSE [c |-> <<16, 0, 0, 0, 0, 0, 0, 0>>, remote |-> from \o <<0>>]

\* operator std::string()
StringToStd(key) ==
    IF isLocal(key.c) THEN StringLocalRead(key.c, 8) ELSE UpToZero(key.remote)

\* String(const std::string&) followed by operator std::string(): the
\* bytes a key built from `from` converts back to
StringRoundTrip(from, charSigned) == StringToStd(StringFrom(from, charSigned))

\* string(): the bytes of a STRING, an exception for any other kind
string(v) ==
    IF v.t = "STRING" THEN [thrown |-> "none", s |-> v.s]
    ELSE [thrown |-> "JSONexception", s |-> <<>>]


----------------------------------------------------------------------------
(* CondensedJSON: the condensed binary codec *)

CondensedInfo ==
    [HALF_PRECISION_FLOAT |-> 128, SHORT_STRING |-> 96, RESERVED_1 |-> 126,
     LONG_STRING |-> 127, MINIMAL_INTEGER |-> 64, COMMON_OBJECT |-> 56,
     RESERVED_2 |-> 61, UNCOMMON_OBJECT |-> 62, RARE_OBJECT |-> 63,
     SMALL_UNIQUE_OBJECT |-> 48, LARGE_UNIQUE_OBJECT |-> 54, HASHTABLE |-> 55,
     SHORT_ARRAY |-> 32, RESERVED_3 |-> 45, LONG_ARRAY |-> 47,
     VERY_SHORT_INTEGER |-> 16, DOUBLE |-> 15, FLOAT |-> 14,
     SIGNED_LONG_INTEGER |-> 13, UNSIGNED_LONG_INTEGER |-> 12,
     SIGNED_INTEGER |-> 11, UNSIGNED_INTEGER |-> 10,
     SIGNED_SHORT_INTEGER |-> 9, UNSIGNED_SHORT_INTEGER |-> 8,
     RESERVED_4 |-> 4, TRUE |-> 3, FALSE |-> 2, NIL |-> 1, TERMINATOR |-> 0,
     MAX_SHORT_STRING_SIZE |-> 30, MAX_SHORT_ARRAY_SIZE |-> 14,
     MAX_COMMON_OBJECT_ID |-> 5, MAX_UNCOMMON_OBJECT_ID |-> 5 + 1 + 255,
     MAX_SMALL_UNIQUE_OBJECT_SIZE |-> 6, STRING_FINAL_BIT_FLIP |-> 128,
     SHORT_STRING_MASK |-> 31, MINIMAL_INTEGER_MASK |-> 31,
     MINIMAL_INTEGER_NUMBER_MASK |-> 15, MINIMAL_INTEGER_SIGN_MASK |-> 16,
     OBJECT_MASK |-> 7, SHORT_ARRAY_MASK |-> 15,
     VERY_SHORT_INTEGER_SIGN_MASK |-> 8, VERY_SHORT_INTEGER_PREFIX_MASK |-> 7]

\* std::string operator<: bytewise, a proper prefix first
RECURSIVE LexLess(_, _)
LexLess(a, b) ==
    IF b = <<>> THEN FALSE
    ELSE IF a = <<>> THEN TRUE
    ELSE IF Head(a) # Head(b) THEN Head(a) < Head(b)
    ELSE LexLess(Tail(a), Tail(b))

\* the keys of a set in std::string order
RECURSIVE SortedKeys(_)
SortedKeys(keys) ==
    IF keys = {} THEN <<>>
    ELSE LET least == CHOOSE k \in keys : \A other \in keys \ {k} : LexLess(k, other)
         IN <<least>> \o SortedKeys(keys \ {least})

Reverse(seq) == [i \in 1..Len(seq) |-> seq[Len(seq) + 1 - i]]

\* The order in which a range-for visits an unordered_map: unspecified.
\* Two orders stand for it, chosen per run.
IterationOrder(keys, hashOrder) ==
    IF hashOrder = "ascending" THEN SortedKeys(keys) ELSE Reverse(SortedKeys(keys))

\* getOrdered: the member names sorted
getOrdered(object) == SortedKeys(DOMAIN object)

RECURSIVE Flatten(_)
Flatten(seqs) == IF seqs = <<>> THEN <<>> ELSE Head(seqs) \o Flatten(Tail(seqs))

\* field[i] > 0 on a char
CharPositive(ch, charSigned) == ch > 0 /\ (charSigned => ch < 128)

\* getDescriptor: the names in order, the last byte of each with its top
\* bit set, an empty name as a lone 0x80; { "", false } when a byte of a
\* name is not positive
getDescriptor(object, charSigned) ==
    LET ordered == getOrdered(object)
        code(field) ==
            IF field = <<>> THEN <<CondensedInfo.STRING_FINAL_BIT_FLIP>>
            ELSE [i \in 1..Len(field) |->
                     IF i < Len(field) THEN field[i]
                     ELSE ByteOr(field[i], CondensedInfo.STRING_FINAL_BIT_FLIP)]
    IN IF \E k \in 1..Len(ordered) : \E i \in 1..Len(ordered[k]) :
              ~CharPositive(ordered[k][i], charSigned)
       THEN [first |-> <<>>, second |-> FALSE]
       ELSE [first |-> Flatten([k \in 1..Len(ordered) |-> code(ordered[k])]),
             second |-> TRUE]

\* addToObjectList: the descriptors of the objects met, one entry per
\* object; the walk descends through object members only.  The list is
\* keyed by String, so each descriptor is held as the String built from it
\* reads back.
RECURSIVE addToObjectList(_, _)
addToObjectList(mapped, charSigned) ==
    IF mapped.t = "OBJECT" /\ DOMAIN mapped.o # {}
    THEN LET descriptor == getDescriptor(mapped.o, charSigned)
             names == getOrdered(mapped.o)
         IN (IF descriptor.second
             THEN <<StringRoundTrip(descriptor.first, charSigned)>> ELSE <<>>)
            \o Flatten([k \in 1..Len(names) |->
                          addToObjectList(mapped.o[names[k]], charSigned)])
    ELSE <<>>

Occurrences(list, descriptor) ==
    Cardinality({i \in 1..Len(list) : list[i] = descriptor})

\* generateObjectMapping: the descriptors met more than once, numbered from
\* 0 by descending count.  std::sort leaves the order of equal counts
\* open, so every numbering that respects the counts is possible.
generateObjectMapping(mapped, charSigned) ==
    LET list == addToObjectList(mapped, charSigned)
        shared == {list[i] : i \in {j \in 1..Len(list) :
                                       Occurrences(list, list[j]) > 1}}
        n == Cardinality(shared)
        ranked == {r \in [shared -> 0..(n - 1)] :
                     /\ \A x, y \in shared : x # y => r[x] # r[y]
                     /\ \A x, y \in shared :
                           Occurrences(list, x) > Occurrences(list, y) => r[x] < r[y]}
        kept(r) == {x \in shared :
                      r[x] <= 65535 + CondensedInfo.MAX_UNCOMMON_OBJECT_ID}
    IN {[x \in kept(r) |-> r[x]] : r \in ranked}

\* writeBinary(lead, number): the lead byte, then the low `bytes` bytes of
\* the number, least significant first
writeBinary(lead, word, bytes) == <<lead>> \o SubSeq(BytesOfBits(word), 1, bytes)

\* std::numeric_limits<T>::min() and ::max(), as int64_t
Limits ==
    [int16_max |-> BitsOfBytes(<<255, 127, 0, 0, 0, 0, 0, 0>>),
     int16_min |-> BitsOfBytes(<<0, 128, 255, 255, 255, 255, 255, 255>>),
     uint16_max |-> BitsOfBytes(<<255, 255, 0, 0, 0, 0, 0, 0>>),
     int32_max |-> BitsOfBytes(<<255, 255, 255, 127, 0, 0, 0, 0>>),
     int32_min |-> BitsOfBytes(<<0, 0, 0, 128, 255, 255, 255, 255>>),
     uint32_max |-> BitsOfBytes(<<255, 255, 255, 255, 0, 0, 0, 0>>),
     unsigned_min |-> Zeros(64),
     int64_max |-> INT64_MAX,
     int64_min |-> INT64_MIN]

SLessEq(a, b) == ~SLess(b, a)

\* writeCondensed, NUMBER case, "It is an integer"
writeInteger(valueInt) ==
    IF SLessEq(valueInt, Int64Of(15)) /\ SLessEq(Int64Of(-16), valueInt)
    THEN <<ByteOr(Field(valueInt, 0, 4), CondensedInfo.MINIMAL_INTEGER)>>
    ELSE IF SLessEq(valueInt, Int64Of(2047)) /\ SLessEq(Int64Of(-2048), valueInt)
    THEN <<ByteOr(CondensedInfo.VERY_SHORT_INTEGER, Field(valueInt, 8, 11)),
           Field(valueInt, 0, 7)>>
    ELSE IF SLess(valueInt, Limits.int16_max) /\ SLess(Limits.int16_min, valueInt)
    THEN writeBinary(CondensedInfo.SIGNED_SHORT_INTEGER, valueInt, 2)
    ELSE IF SLess(valueInt, Limits.uint16_max) /\ SLess(Limits.unsigned_min, valueInt)
    THEN writeBinary(CondensedInfo.UNSIGNED_SHORT_INTEGER, valueInt, 2)
    ELSE IF SLess(valueInt, Limits.int32_max) /\ SLess(Limits.int32_min, valueInt)
    THEN writeBinary(CondensedInfo.SIGNED_INTEGER, valueInt, 4)
    ELSE IF SLess(valueInt, Limits.uint32_max) /\ SLess(Limits.unsigned_min, valueInt)
    THEN writeBinary(CondensedInfo.UNSIGNED_INTEGER, valueInt, 4)
    ELSE IF SLess(valueInt, Limits.int64_max) /\ SLess(Limits.int64_min, valueInt)
    THEN writeBinary(CondensedInfo.SIGNED_LONG_INTEGER, valueInt, 8)
    ELSE <<>>

\* the float constants of the floating branch, widened to double
MAX_HALF_PRECISION == BitsOfBytes(<<0, 0, 0, 160, 0, 240, 255, 65>>)
MIN_HALF_PRECISION_POSITIVE == BitsOfBytes(<<0, 0, 0, 128, 0, 16, 16, 62>>)

\* writeCondensed, NUMBER case, "Is floating point": the chosen Hint.
\* preferred is SERIALISABLE_BY_DUGI_CONDENSED_PREFER_PRECISION.
floatingHint(value, preferred) ==
    LET triedBinary == value
        tried == Fabs(value)
        positive == DLessPos(Zeros(64), tried)
    IN IF DLessPos(FLT_MAX, tried) \/ (DLessPos(tried, FLT_MIN) /\ positive)
       THEN "DOUBLE_PRECISION"
       ELSE IF \/ preferred # "DOUBLE_PRECISION"
               \/ DoubleEq(FloatToDouble(DoubleToFloat(tried)), tried)
               \/ AnyBit(triedBinary, 2, 31)
       THEN (IF \/ DLessPos(MAX_HALF_PRECISION, tried)
                \/ (DLessPos(tried, MIN_HALF_PRECISION_POSITIVE) /\ positive)
             THEN "SINGLE_PRECISION"
             ELSE IF preferred = "HALF_PRECISION" \/ AnyBit(triedBinary, 2, 54)
             THEN "HALF_PRECISION"
             ELSE "SINGLE_PRECISION")
       ELSE "DOUBLE_PRECISION"

\* the bytes written for each Hint
writeHalf(value) ==
    LET prefix == CondensedInfo.HALF_PRECISION_FLOAT + 64 * DSign(value)
        exponent == (DExp(value) - 992 + 2048) % 256
    IN <<ByteOr(prefix, exponent), Field(value, 44, 51)>>

writeFloating(value, preferred) ==
    LET hint == floatingHint(value, preferred) IN
    IF hint = "HALF_PRECISION" THEN writeHalf(value)
    ELSE IF hint = "SINGLE_PRECISION"
    THEN <<CondensedInfo.FLOAT>> \o BytesOfBits(DoubleToFloat(value))
    ELSE <<CondensedInfo.DOUBLE>> \o BytesOfBits(value)

\* writeCondensed, NUMBER case
writeNumber(value, env) ==
    LET valueInt == DoubleToInt64(value, env.fpConv) IN
    IF DoubleEq(value, Int64ToDouble(valueInt))
    THEN writeInteger(valueInt)
    ELSE writeFloating(value, env.preferred)

\* writeCondensed, STRING case
writeStringValue(contents) ==
    IF Len(contents) < CondensedInfo.MAX_SHORT_STRING_SIZE
    THEN <<CondensedInfo.SHORT_STRING + Len(contents)>> \o contents
    ELSE <<CondensedInfo.LONG_STRING>> \o contents \o <<CondensedInfo.TERMINATOR>>

\* writeCondensed, OBJECT case, the tag of an object found in the mapping
writeObjectIndex(index) ==
    IF index <= CondensedInfo.MAX_COMMON_OBJECT_ID
    THEN <<ByteOr(CondensedInfo.COMMON_OBJECT, index % 256)>>
    ELSE IF index <= CondensedInfo.MAX_UNCOMMON_OBJECT_ID
    THEN <<CondensedInfo.UNCOMMON_OBJECT,
           (index - (CondensedInfo.MAX_COMMON_OBJECT_ID + 1)) % 256>>
    ELSE LET rest == index - (CondensedInfo.MAX_UNCOMMON_OBJECT_ID + 1) IN
         <<CondensedInfo.UNCOMMON_OBJECT, (rest \div 256) % 256, rest % 256>>

\* writeCondensed.  st = [buffer, used, named]: the bytes so far, the
\* descriptors whose ObjectMapEntry::used is set, and (history only) the
\* descriptors written out in full so far.
\* env = [mapping, charSigned, preferred, fpConv, hashOrder].
RECURSIVE writeCondensed(_, _, _)
RECURSIVE writeEach(_, _, _)
writeEach(values, st, env) ==
    IF values = <<>> THEN st
    ELSE writeEach(Tail(values), writeCondensed(Head(values), st, env), env)

writeCondensed(source, st, env) ==
    LET put(bytes) == [st EXCEPT !.buffer = @ \o bytes] IN
    CASE source.t = "NIL" -> put(<<CondensedInfo.NIL>>)
      [] source.t = "STRING" -> put(writeStringValue(source.s))
      [] source.t = "NUMBER" -> put(writeNumber(number(source), env))
      [] source.t = "BOOL" ->
            put(<<IF source.b THEN CondensedInfo.TRUE ELSE CondensedInfo.FALSE>>)
      [] source.t = "OBJECT" ->
            LET contents == source.o
                descriptor == getDescriptor(contents, env.charSigned)
                ordered == getOrdered(contents)
                size == Cardinality(DOMAIN contents)
                visited == IterationOrder(DOMAIN contents \ {<<>>}, env.hashOrder)
            IN IF DOMAIN contents = {}
               THEN put(<<CondensedInfo.SMALL_UNIQUE_OBJECT>>)
               ELSE IF descriptor.second
               THEN LET head ==
                          IF descriptor.first \in DOMAIN env.mapping
                          THEN [buffer |->
                                   st.buffer
                                   \o writeObjectIndex(env.mapping[descriptor.first])
                                   \o (IF descriptor.first \in st.used \/ descriptor.first = <<>>
                                       THEN <<>>
                                       ELSE descriptor.first \o <<CondensedInfo.TERMINATOR>>),
                                used |-> IF descriptor.first = <<>> THEN st.used
                                         ELSE st.used \cup {descriptor.first},
                                named |-> IF descriptor.first \in st.used
                                             \/ descriptor.first = <<>>
                                          THEN st.named
                                          ELSE Append(st.named, descriptor.first)]
                          ELSE IF size < CondensedInfo.MAX_SMALL_UNIQUE_OBJECT_SIZE
                          THEN [put(<<ByteOr(CondensedInfo.SMALL_UNIQUE_OBJECT,
                                              size % 256)>>
                                    \o descriptor.first)
                                  EXCEPT !.named = Append(@, descriptor.first)]
                          ELSE [put(<<CondensedInfo.LARGE_UNIQUE_OBJECT>>
                                    \o descriptor.first
                                    \o <<CondensedInfo.TERMINATOR>>)
                                  EXCEPT !.named = Append(@, descriptor.first)]
                    IN writeEach([k \in 1..Len(ordered) |-> contents[ordered[k]]],
                                 head, env)
               ELSE LET names == Flatten([k \in 1..Len(visited) |->
                                            visited[k] \o <<CondensedInfo.TERMINATOR>>])
                        head == put(<<CondensedInfo.HASHTABLE>> \o names
                                    \o (IF <<>> \in DOMAIN contents
                                        THEN <<CondensedInfo.TERMINATOR>> ELSE <<>>)
                                    \o <<CondensedInfo.TERMINATOR>>)
                        body == writeEach([k \in 1..Len(visited) |-> contents[visited[k]]],
                                          head, env)
                    IN IF <<>> \in DOMAIN contents
                       THEN writeCondensed(contents[<<>>], body, env)
                       ELSE body
      [] source.t = "ARRAY" ->
            LET contents == source.a IN
            IF Len(contents) < CondensedInfo.MAX_SHORT_ARRAY_SIZE
            THEN writeEach(contents,
                           put(<<ByteOr(CondensedInfo.SHORT_ARRAY, Len(contents))>>),
                           env)
            ELSE LET body == writeEach(contents, put(<<CondensedInfo.LONG_ARRAY>>), env)
                 IN [body EXCEPT !.buffer = @ \o <<CondensedInfo.TERMINATOR>>]

\* serialise(source), given the mapping generateObjectMapping returned
serialiseFrom(source, env) ==
    writeCondensed(source, [buffer |-> <<>>, used |-> {}, named |-> <<>>], env)

serialise(source, env) == serialiseFrom(source, env).buffer

\* The decoder's cursor `source` is pos: the index in data of the byte it
\* points at (0: one byte before the data).  A result is
\* [err, v, pos, objects]; err = "none" on a normal return, else the
\* exception thrown:
\*   "end"          Condensed JSON got to an unexpected end of data
\*   "version"      Condensed JSON version is too low
\*   "terminator"   Condensed JSON stumbled upon an unexpected ending symbol
\*   "unrecognised" Condensed JSON failed to recognise type information
\* objects maps the ids defined so far to their member names.
Thrown(kind, pos, objects) ==
    [err |-> kind, v |-> JSONnull, pos |-> pos, objects |-> objects]
Returned(value, pos, objects) ==
    [err |-> "none", v |-> value, pos |-> pos, objects |-> objects]

\* next() succeeds from pos; peek() succeeds at pos
CanNext(data, pos) == pos + 1 <= Len(data)

\* readCodeString, after its first next(): bytes below 0x80 are pushed and
\* stepped over, the first byte from 0x80 up ends the name
readCodeRest(data, pos) ==
    LET final == {i \in pos..Len(data) :
                    data[i] >= CondensedInfo.STRING_FINAL_BIT_FLIP}
    IN IF final = {} THEN [err |-> "end", s |-> <<>>, pos |-> Len(data) + 1]
       ELSE [err |-> "none",
             s |-> SubSeq(data, pos, Least(final) - 1)
                   \o <<ByteAnd(data[Least(final)], 127)>>,
             pos |-> Least(final)]

readCodeString(data, pos) ==
    IF ~CanNext(data, pos) THEN [err |-> "end", s |-> <<>>, pos |-> pos + 1]
    ELSE IF data[pos + 1] = CondensedInfo.STRING_FINAL_BIT_FLIP
    THEN [err |-> "none", s |-> <<>>, pos |-> pos + 1]
    ELSE readCodeRest(data, pos + 1)

\* while (peek() != TERMINATOR) names.push_back(readCodeString());
RECURSIVE readCodeNames(_, _, _)
readCodeNames(data, pos, names) ==
    IF ~CanNext(data, pos) THEN [err |-> "end", names |-> names, pos |-> pos]
    ELSE IF data[pos + 1] = CondensedInfo.TERMINATOR
    THEN [err |-> "none", names |-> names, pos |-> pos]
    ELSE LET name == readCodeString(data, pos) IN
         IF name.err # "none"
         THEN [err |-> name.err, names |-> names, pos |-> name.pos]
         ELSE readCodeNames(data, name.pos, names \o <<name.s>>)

\* n times: next(); made.push_back(*source);
readBytes(data, pos, n) ==
    IF pos + n <= Len(data)
    THEN [err |-> "none", s |-> SubSeq(data, pos + 1, pos + n), pos |-> pos + n]
    ELSE [err |-> "end", s |-> <<>>, pos |-> Len(data) + 1]

\* while (*source) { made.push_back(*source); next(); }
readToZero(data, pos) ==
    LET zeros == {i \in pos..Len(data) : data[i] = 0} IN
    IF zeros = {} THEN [err |-> "end", s |-> <<>>, pos |-> Len(data) + 1]
    ELSE [err |-> "none", s |-> SubSeq(data, pos, Least(zeros) - 1),
          pos |-> Least(zeros)]

\* HASHTABLE: the names, each closed by a zero byte, to an empty name
RECURSIVE readTableNames(_, _, _)
readTableNames(data, pos, names) ==
    IF data[pos] = CondensedInfo.TERMINATOR
    THEN [err |-> "none", names |-> names, pos |-> pos]
    ELSE LET made == readToZero(data, pos) IN
         IF made.err # "none"
         THEN [err |-> made.err, names |-> names, pos |-> made.pos]
         ELSE IF ~CanNext(data, made.pos)
         THEN [err |-> "end", names |-> names, pos |-> made.pos + 1]
         ELSE readTableNames(data, made.pos + 1, names \o <<made.s>>)

\* made[it] = value on an ObjectType: the key goes through String
Bind(object, key, value) ==
    [k \in DOMAIN object \cup {key} |-> IF k = key THEN value ELSE object[k]]

\* the half-precision case: the double rebuilt from the two bytes
parseHalf(lead, mantissa) ==
    MkDouble(BitAt(lead, 6), 992 + ByteAnd(lead, 63),
             Zeros(44) \o BitsOfBytes(<<mantissa>>))

RECURSIVE parseCondensed(_, _, _, _)
RECURSIVE parseObjectUsingDict(_, _, _, _, _, _)
RECURSIVE parseShortArray(_, _, _, _, _, _)
RECURSIVE parseLongArray(_, _, _, _, _)

\* parseObjectUsingDict: one value per name, in the order of the names
parseObjectUsingDict(data, names, made, pos, objects, charSigned) ==
    IF names = <<>> THEN Returned(JSONobject(made), pos, objects)
    ELSE LET member == parseCondensed(data, pos, objects, charSigned) IN
         IF member.err # "none" THEN member
         ELSE parseObjectUsingDict(
                  data, Tail(names),
                  Bind(made, StringRoundTrip(Head(names), charSigned), member.v),
                  member.pos, member.objects, charSigned)

\* parseObject: the names of id `index`, read here when the id is new
parseObject(data, index, pos, objects, charSigned) ==
    IF index \in DOMAIN objects
    THEN parseObjectUsingDict(data, objects[index], <<>>, pos, objects, charSigned)
    ELSE LET read == readCodeNames(data, pos, <<>>) IN
         IF read.err # "none" THEN Thrown(read.err, read.pos, objects)
         ELSE parseObjectUsingDict(data, read.names, <<>>, read.pos + 1,
                                   Bind(objects, index, read.names), charSigned)

\* SHORT_ARRAY: size values
parseShortArray(data, size, made, pos, objects, charSigned) ==
    IF size = 0 THEN Returned(JSONarray(made), pos, objects)
    ELSE LET element == parseCondensed(data, pos, objects, charSigned) IN
         IF element.err # "none" THEN element
         ELSE parseShortArray(data, size - 1, made \o <<element.v>>,
                              element.pos, element.objects, charSigned)

\* LONG_ARRAY: while (peek() != TERMINATOR) made.push_back(parseCondensed(...))
parseLongArray(data, made, pos, objects, charSigned) ==
    IF ~CanNext(data, pos) THEN Thrown("end", pos, objects)
    ELSE IF data[pos + 1] = CondensedInfo.TERMINATOR
    THEN Returned(JSONarray(made), pos, objects)
    ELSE LET element == parseCondensed(data, pos, objects, charSigned) IN
         IF element.err # "none" THEN element
         ELSE parseLongArray(data, made \o <<element.v>>,
                             element.pos, element.objects, charSigned)

\* parseInt<T> and the DOUBLE and FLOAT cases: `bytes` bytes, least
\* significant first
AsIs(w) == w
AsSigned(w) == IntToDouble(w, TRUE)
AsUnsigned(w) == IntToDouble(w, FALSE)

\* the value a fixed-width number's bytes are read as
Converted(w, as) ==
    CASE as = "double" -> AsIs(w)
      [] as = "float" -> FloatToDouble(w)
      [] as = "signed" -> AsSigned(w)
      [] as = "unsigned" -> AsUnsigned(w)

parseFixed(data, pos, objects, bytes, as) ==
    LET read == readBytes(data, pos, bytes) IN
    IF read.err # "none" THEN Thrown(read.err, read.pos, objects)
    ELSE Returned(JSONnumber(Converted(BitsOfBytes(read.s), as)), read.pos, objects)

parseCondensed(data, pos0, objects, charSigned) ==
    IF ~CanNext(data, pos0) THEN Thrown("end", pos0 + 1, objects)
    ELSE
    LET pos == pos0 + 1
        lead == data[pos]
    IN
    IF ByteAnd(lead, CondensedInfo.HALF_PRECISION_FLOAT) # 0
    THEN (IF ~CanNext(data, pos) THEN Thrown("end", pos + 1, objects)
          ELSE Returned(JSONnumber(parseHalf(lead, data[pos + 1])), pos + 1, objects))
    ELSE IF lead = CondensedInfo.LONG_STRING
    THEN (IF ~CanNext(data, pos) THEN Thrown("end", pos + 1, objects)
          ELSE LET made == readToZero(data, pos + 1) IN
               IF made.err # "none" THEN Thrown(made.err, made.pos, objects)
               ELSE Returned(JSONstring(made.s, charSigned), made.pos, objects))
    ELSE IF lead = CondensedInfo.RESERVED_1 THEN Thrown("version", pos, objects)
    ELSE IF ByteAnd(lead, 224) = CondensedInfo.SHORT_STRING
    THEN LET made == readBytes(data, pos, ByteAnd(lead, CondensedInfo.SHORT_STRING_MASK)) IN
         IF made.err # "none" THEN Thrown(made.err, made.pos, objects)
         ELSE Returned(JSONstring(made.s, charSigned), made.pos, objects)
    ELSE IF ByteAnd(lead, 224) = CondensedInfo.MINIMAL_INTEGER
    THEN Returned(
             JSONnumber(Int64ToDouble(
                 BitsOfNat(ByteAnd(lead, CondensedInfo.MINIMAL_INTEGER_NUMBER_MASK), 4)
                 \o (IF ByteAnd(lead, CondensedInfo.MINIMAL_INTEGER_SIGN_MASK) # 0
                     THEN Ones(60) ELSE Zeros(60)))),
             pos, objects)
    ELSE IF lead = CondensedInfo.RESERVED_2 THEN Thrown("version", pos, objects)
    ELSE IF lead = CondensedInfo.UNCOMMON_OBJECT
    THEN (IF ~CanNext(data, pos) THEN Thrown("end", pos + 1, objects)
          ELSE parseObject(data, data[pos + 1] + CondensedInfo.MAX_COMMON_OBJECT_ID,
                           pos + 1, objects, charSigned))
    ELSE IF lead = CondensedInfo.RARE_OBJECT
    THEN (IF pos + 2 > Len(data) THEN Thrown("end", Len(data) + 1, objects)
          ELSE parseObject(data,
                           data[pos + 1] * 256 + data[pos + 2]
                           + CondensedInfo.MAX_UNCOMMON_OBJECT_ID,
                           pos + 2, objects, charSigned))
    ELSE IF ByteAnd(lead, CondensedInfo.COMMON_OBJECT) = CondensedInfo.COMMON_OBJECT
    THEN parseObject(data, ByteAnd(lead, CondensedInfo.OBJECT_MASK), pos, objects,
                     charSigned)
    ELSE IF lead = CondensedInfo.LARGE_UNIQUE_OBJECT
    THEN LET read == readCodeNames(data, pos, <<>>) IN
         IF read.err # "none" THEN Thrown(read.err, read.pos, objects)
         ELSE parseObjectUsingDict(data, read.names, <<>>, read.pos + 1, objects,
                                   charSigned)
    ELSE IF lead = CondensedInfo.HASHTABLE
    THEN (IF ~CanNext(data, pos) THEN Thrown("end", pos + 1, objects)
          ELSE LET read == readTableNames(data, pos + 1, <<>>) IN
               IF read.err # "none" THEN Thrown(read.err, read.pos, objects)
               ELSE IF ~CanNext(data, read.pos) THEN Thrown("end", read.pos, objects)
               ELSE IF data[read.pos + 1] = CondensedInfo.TERMINATOR
               THEN parseObjectUsingDict(data, read.names \o <<<<>>>>, <<>>,
                                         read.pos + 1, objects, charSigned)
               ELSE parseObjectUsingDict(data, read.names, <<>>, read.pos, objects,
                                         charSigned))
    ELSE IF ByteAnd(lead, 240) = CondensedInfo.SMALL_UNIQUE_OBJECT
    THEN LET RECURSIVE readSized(_, _, _)
             readSized(size, at, names) ==
                 IF size = 0 THEN [err |-> "none", names |-> names, pos |-> at]
                 ELSE LET name == readCodeString(data, at) IN
                      IF name.err # "none"
                      THEN [err |-> name.err, names |-> names, pos |-> name.pos]
                      ELSE readSized(size - 1, name.pos, names \o <<name.s>>)
             read == readSized(ByteAnd(lead, CondensedInfo.OBJECT_MASK), pos, <<>>)
         IN IF read.err # "none" THEN Thrown(read.err, read.pos, objects)
            ELSE parseObjectUsingDict(data, read.names, <<>>, read.pos, objects,
                                      charSigned)
    ELSE IF lead = CondensedInfo.LONG_ARRAY
    THEN parseLongArray(data, <<>>, pos, objects, charSigned)
    ELSE IF ByteAnd(lead, 240) = CondensedInfo.SHORT_ARRAY
    THEN parseShortArray(data, ByteAnd(lead, CondensedInfo.SHORT_ARRAY_MASK), <<>>,
                         pos, objects, charSigned)
    ELSE IF ByteAnd(lead, 240) = CondensedInfo.VERY_SHORT_INTEGER
    THEN (IF ~CanNext(data, pos) THEN Thrown("end", pos + 1, objects)
          ELSE Returned(
                   JSONnumber(Int64ToDouble(
                       BitsOfBytes(<<data[pos + 1]>>)
                       \o BitsOfNat(ByteAnd(lead, CondensedInfo.VERY_SHORT_INTEGER_PREFIX_MASK), 3)
                       \o (IF ByteAnd(lead, CondensedInfo.VERY_SHORT_INTEGER_SIGN_MASK) # 0
                           THEN Ones(53) ELSE Zeros(53)))),
                   pos + 1, objects))
    ELSE IF lead = CondensedInfo.DOUBLE THEN parseFixed(data, pos, objects, 8, "double")
    ELSE IF lead = CondensedInfo.FLOAT
    THEN parseFixed(data, pos, objects, 4, "float")
    ELSE IF lead = CondensedInfo.SIGNED_LONG_INTEGER
    THEN parseFixed(data, pos, objects, 8, "signed")
    ELSE IF lead = CondensedInfo.UNSIGNED_LONG_INTEGER
    THEN parseFixed(data, pos, objects, 8, "unsigned")
    ELSE IF lead = CondensedInfo.SIGNED_INTEGER
    THEN parseFixed(data, pos, objects, 4, "signed")
    ELSE IF lead = CondensedInfo.UNSIGNED_INTEGER
    THEN parseFixed(data, pos, objects, 4, "unsigned")
    ELSE IF lead = CondensedInfo.SIGNED_SHORT_INTEGER
    THEN parseFixed(data, pos, objects, 2, "signed")
    ELSE IF lead = CondensedInfo.UNSIGNED_SHORT_INTEGER
    THEN parseFixed(data, pos, objects, 2, "unsigned")
    ELSE IF lead = CondensedInfo.TRUE THEN Returned(JSONbool(TRUE), pos, objects)
    ELSE IF lead = CondensedInfo.FALSE THEN Returned(JSONbool(FALSE), pos, objects)
    ELSE IF lead = CondensedInfo.NIL THEN Returned(JSONnull, pos, objects)
    ELSE IF lead = CondensedInfo.TERMINATOR THEN Thrown("terminator", pos, objects)
    ELSE Thrown("unrecognised", pos, objects)

\* deserialise(source)
deserialise(source, charSigned) == parseCondensed(source, 0, <<>>, charSigned)


----------------------------------------------------------------------------
(* JSONformat: the text codec.  A text is a sequence of bytes.             *)

Chars ==
    [quote |-> 34, backslash |-> 92, slash |-> 47, newline |-> 10, tab |-> 9,
     space |-> 32, comma |-> 44, colon |-> 58, plus |-> 43, minus |-> 45,
     dot |-> 46, zero |-> 48, nine |-> 57, upperE |-> 69, lowerE |-> 101,
     openBrace |-> 123, closeBrace |-> 125, openBracket |-> 91,
     closeBracket |-> 93, EOF |-> 255]

Text ==
    [null |-> <<110, 117, 108, 108>>, true |-> <<116, 114, 117, 101>>,
     false |-> <<102, 97, 108, 115, 101>>, nan |-> <<110, 97, 110>>,
     inf |-> <<105, 110, 102>>]

Pow10(n) == 10^n

\* the decimal digits of a natural number, most significant first
RECURSIVE DigitsOf(_)
DigitsOf(n) ==
    IF n < 10 THEN <<Chars.zero + n>>
    ELSE Append(DigitsOf(n \div 10), Chars.zero + (n % 10))

\* the digits without their trailing zeros
StripZeros(digits) ==
    LET kept == {i \in 1..Len(digits) : digits[i] # Chars.zero} IN
    IF kept = {} THEN <<>>
    ELSE SubSeq(digits, 1, CHOOSE i \in kept : \A j \in kept : j <= i)

\* operator<<(double) with the stream's default flags writes as printf's
\* %g with precision 6.  The model covers the doubles that are a whole
\* number of eighths below 2^21 in size: their decimal expansion, n / 1000,
\* is exact in plain integers.
Eighths(d) ==
    LET e == DExp(d) - 1023 IN
    IF IsZero(d) THEN 0 ELSE BitsVal(SubSeq(DMant(d) \o <<1>>, 50 - e, 53))

InFormatRange(d) ==
    \/ IsZero(d)
    \/ /\ DExp(d) - 1023 \in -3..20
       /\ ~AnyBit(DMant(d), 0, 48 - (DExp(d) - 1023))

\* the six significant digits printf rounds n / 1000 to (ties to even on
\* the exact value) and the decimal exponent of the first of them
SixDigits(n) ==
    LET all == DigitsOf(n)
        drop == Len(all) - 6
        q == n \div Pow10(drop)
        rest == n % Pow10(drop)
        half == Pow10(drop) \div 2
        up == rest > half \/ (rest = half /\ q % 2 = 1)
    IN IF drop <= 0 THEN [digits |-> all, exp |-> Len(all) - 4]
       ELSE IF up /\ q + 1 = Pow10(6)
       THEN [digits |-> DigitsOf(Pow10(5)), exp |-> Len(all) - 4 + 1]
       ELSE [digits |-> DigitsOf(IF up THEN q + 1 ELSE q), exp |-> Len(all) - 4]

\* %g: the digits laid out in fixed or in scientific style
LayOut(digits, exp) ==
    LET sig == StripZeros(digits)
        first == <<digits[1]>>
        after == SubSeq(sig, 2, Len(sig))
        size == IF exp < 0 THEN 0 - exp ELSE exp
        whole == SubSeq(digits, 1, exp + 1)
        part == StripZeros(SubSeq(digits, exp + 2, Len(digits)))
    IN IF exp < -4 \/ exp >= 6
       THEN first
            \o (IF after = <<>> THEN <<>> ELSE <<Chars.dot>> \o after)
            \o <<Chars.lowerE, IF exp < 0 THEN Chars.minus ELSE Chars.plus>>
            \o (IF size < 10 THEN <<Chars.zero>> ELSE <<>>) \o DigitsOf(size)
       ELSE IF exp >= 0
       THEN whole \o (IF part = <<>> THEN <<>> ELSE <<Chars.dot>> \o part)
       ELSE <<Chars.zero, Chars.dot>> \o [i \in 1..(0 - exp - 1) |-> Chars.zero] \o sig

\* stream << serialised.number()
FormatDouble(d) ==
    LET sign == IF DSign(d) = 1 THEN <<Chars.minus>> ELSE <<>> IN
    CASE IsNaN(d) -> sign \o Text.nan
      [] DExp(d) = 2047 /\ ~IsNaN(d) -> sign \o Text.inf
      [] IsZero(d) -> sign \o <<Chars.zero>>
      [] IsFinite(d) /\ ~IsZero(d) /\ InFormatRange(d) ->
            LET six == SixDigits(Eighths(d) * 125)
                padded == six.digits \o [i \in 1..(6 - Len(six.digits)) |-> Chars.zero]
            IN sign \o LayOut(padded, six.exp)

IsDigit(ch) == ch \in Chars.zero..Chars.nine

\* the first index from `from` on that holds no digit
DigitsEnd(text, from) ==
    Least({i \in from..Len(text) : ~IsDigit(text[i])} \cup {Len(text) + 1})

RECURSIVE DigitsValue(_)
DigitsValue(digits) ==
    IF digits = <<>> THEN 0
    ELSE 10 * DigitsValue(SubSeq(digits, 1, Len(digits) - 1))
         + (digits[Len(digits)] - Chars.zero)

\* the digits without their leading zeros
StripLeading(digits) ==
    LET kept == {i \in 1..Len(digits) : digits[i] # Chars.zero} IN
    IF kept = {} THEN <<>> ELSE SubSeq(digits, Least(kept), Len(digits))

\* Long division by d < 2^20 of a number given as 10-bit limbs, the most
\* significant first: [q |-> the quotient's limbs, r |-> the remainder]
RECURSIVE DivideFrom(_, _, _, _)
DivideFrom(limbs, i, d, r) ==
    IF i > Len(limbs) THEN [q |-> <<>>, r |-> r]
    ELSE LET now == 1024 * r + limbs[i]
             rest == DivideFrom(limbs, i + 1, d, now % d)
         IN [q |-> <<now \div d>> \o rest.q, r |-> rest.r]

\* the double nearest to n / d (ties to even), for 0 < n < 2^31, d < 2^20
NearestQuotient(sign, n, d) ==
    LET shift == 80
        num == Zeros(shift) \o BitsOfNat(n, 40)
        limbs == [i \in 1..12 |-> BitsVal(SubSeq(num, 120 - 10 * i + 1, 120 - 10 * i + 10))]
        div == DivideFrom(limbs, 1, d, 0)
        sticky == IF div.r # 0 THEN 1 ELSE 0
        q == [i \in 1..120 |->
                IF i = 1 /\ sticky = 1 THEN 1
                ELSE (div.q[12 - ((i - 1) \div 10)] \div Pow2((i - 1) % 10)) % 2]
        p == TopBit(q)
        kept == RoundShift(SubSeq(q, 1, p + 1), p - 52)
    IN IF kept[54] = 1 THEN MkDouble(sign, 1023 + p - shift + 1, Zeros(52))
       ELSE MkDouble(sign, 1023 + p - shift, SubSeq(kept, 1, 52))

\* operator>>(double&) on the characters collected: the longest prefix that
\* reads as a number is taken; when that prefix is no complete number the
\* result is 0.  The value is the double nearest to mantissa * 10^exponent;
\* the model covers up to 9 significant digits, up to 6 of them after the
\* decimal point, and results below 2^31.
ParseDouble(text) ==
    LET signed == text # <<>> /\ text[1] \in {Chars.plus, Chars.minus}
        sign == IF signed /\ text[1] = Chars.minus THEN 1 ELSE 0
        wholeAt == IF signed THEN 2 ELSE 1
        wholeEnd == DigitsEnd(text, wholeAt)
        dotted == wholeEnd <= Len(text) /\ text[wholeEnd] = Chars.dot
        partEnd == IF dotted THEN DigitsEnd(text, wholeEnd + 1) ELSE wholeEnd
        whole == SubSeq(text, wholeAt, wholeEnd - 1)
        part == IF dotted THEN SubSeq(text, wholeEnd + 1, partEnd - 1) ELSE <<>>
        mantissa == whole \o part # <<>>
        sci == /\ mantissa
               /\ partEnd <= Len(text)
               /\ text[partEnd] \in {Chars.lowerE, Chars.upperE}
        expSigned == /\ sci
                     /\ partEnd + 1 <= Len(text)
                     /\ text[partEnd + 1] \in {Chars.plus, Chars.minus}
        expAt == IF expSigned THEN partEnd + 2 ELSE partEnd + 1
        expDigits == IF sci THEN SubSeq(text, expAt, DigitsEnd(text, expAt) - 1)
                     ELSE <<>>
        expValue == IF expSigned /\ text[partEnd + 1] = Chars.minus
                    THEN 0 - DigitsValue(expDigits) ELSE DigitsValue(expDigits)
        digits == StripLeading(whole \o StripZeros(part))
        n == DigitsValue(digits)
        exp == expValue - Len(StripZeros(part))
        zero == Zeros(63) \o <<sign>>
    IN CASE ~mantissa \/ (sci /\ expDigits = <<>>) -> Zeros(64)
         [] mantissa /\ (sci => expDigits # <<>>) /\ n = 0 -> zero
         [] mantissa /\ (sci => expDigits # <<>>) /\ n # 0 /\ Len(digits) <= 9
            /\ exp \in 0..9 /\ Len(digits) + exp <= 9 ->
               UIntToDouble(sign, BitsOfNat(n * Pow10(exp), 64))
         [] mantissa /\ (sci => expDigits # <<>>) /\ n # 0 /\ Len(digits) <= 9
            /\ exp \in -6..-1 ->
               NearestQuotient(sign, n, Pow10(0 - exp))

\* indent: depth tabs
indent(depth) == [i \in 1..depth |-> Chars.tab]

\* writeString, used for member names: '"' is written as /", a newline
\* as \n and a backslash as \\
writeString(written) ==
    <<Chars.quote>>
    \o Flatten([i \in 1..Len(written) |->
                  CASE written[i] = Chars.quote -> <<Chars.slash, Chars.quote>>
                    [] written[i] = Chars.newline -> <<Chars.backslash, 110>>
                    [] written[i] = Chars.backslash -> <<Chars.backslash, Chars.backslash>>
                    [] OTHER -> <<written[i]>>])
    \o <<Chars.quote>>

\* toStream: a STRING goes between quotes as it is; the members of an
\* object are written in the order the map iterates
RECURSIVE toStream(_, _, _)
toStream(serialised, depth, hashOrder) ==
    CASE serialised.t = "NIL" -> Text.null
      [] serialised.t = "NUMBER" -> FormatDouble(number(serialised))
      [] serialised.t = "BOOL" -> IF serialised.b THEN Text.true ELSE Text.false
      [] serialised.t = "STRING" -> <<Chars.quote>> \o serialised.s \o <<Chars.quote>>
      [] serialised.t = "OBJECT" ->
            LET object == serialised.o
                names == IterationOrder(DOMAIN object, hashOrder)
                member(i) ==
                    (IF i = 1 THEN <<>> ELSE <<Chars.comma, Chars.newline>>)
                    \o indent(depth + 1) \o writeString(names[i])
                    \o <<Chars.colon, Chars.space>>
                    \o toStream(object[names[i]], depth + 1, hashOrder)
            IN IF DOMAIN object = {} THEN <<Chars.openBrace, Chars.closeBrace>>
               ELSE <<Chars.openBrace, Chars.newline>>
                    \o Flatten([i \in 1..Len(names) |-> member(i)])
                    \o <<Chars.newline>> \o indent(depth) \o <<Chars.closeBrace>>
      [] serialised.t = "ARRAY" ->
            LET array == serialised.a
                element(i) ==
                    <<Chars.newline>> \o indent(depth + 1)
                    \o toStream(array[i], depth + 1, hashOrder)
                    \o (IF i < Len(array) THEN <<Chars.comma>> ELSE <<>>)
            IN IF array = <<>> THEN <<Chars.openBracket, Chars.closeBracket>>
               ELSE <<Chars.openBracket>>
                    \o Flatten([i \in 1..Len(array) |-> element(i)])
                    \o <<Chars.newline>> \o indent(depth) \o <<Chars.closeBracket>>

\* JSONformat::serialise
JSONformatSerialise(serialised, hashOrder) == toStream(serialised, 0, hashOrder)

(* Reading.  The stream is the text and pos, the index of the next byte;   *)
(* pos = Len(text) + 2 is the stream that has failed: a get() found no     *)
(* byte.  From then on get() returns EOF and unget() does nothing.  A read *)
(* returns [err, v, pos] with err one of                                   *)
(*   "none"          a value was returned                                  *)
(*   "runtime_error" the parser threw                                      *)
(*   "exhausted"     a loop that only ends on a byte the failed stream     *)
(*                   never delivers: it appends until memory runs out      *)
Failed(text) == Len(text) + 2

\* stream.get(), as stored into a char: EOF becomes the byte 0xFF
Get(text, pos) ==
    IF pos > Len(text) THEN [ch |-> Chars.EOF, pos |-> Failed(text)]
    ELSE [ch |-> text[pos], pos |-> pos + 1]

\* stream.unget()
Unget(text, pos) == IF pos = Failed(text) THEN pos ELSE pos - 1

\* letter == EOF, for a char letter: only a signed char 0xFF equals -1
IsEOF(ch, charSigned) == charSigned /\ ch = Chars.EOF

TextThrown(kind, pos) == [err |-> kind, v |-> JSONnull, pos |-> pos]
TextReturned(value, pos) == [err |-> "none", v |-> value, pos |-> pos]

\* the lambda readString: to the closing quote; after a backslash only
\* '"', 'n' and a backslash stand for a character, anything else is dropped
RECURSIVE readString(_, _, _)
readString(text, pos, collected) ==
    LET got == Get(text, pos)
        escaped == Get(text, got.pos)
    IN IF got.pos = Failed(text)
       THEN [err |-> "exhausted", s |-> collected, pos |-> got.pos]
       ELSE IF got.ch = Chars.quote
       THEN [err |-> "none", s |-> collected, pos |-> got.pos]
       ELSE IF got.ch # Chars.backslash
       THEN readString(text, got.pos, Append(collected, got.ch))
       ELSE IF escaped.pos = Failed(text)
       THEN [err |-> "exhausted", s |-> collected, pos |-> escaped.pos]
       ELSE readString(text, escaped.pos,
                collected \o (CASE escaped.ch = Chars.quote -> <<Chars.quote>>
                                [] escaped.ch = 110 -> <<Chars.newline>>
                                [] escaped.ch = Chars.backslash -> <<Chars.backslash>>
                                [] OTHER -> <<>>))

\* the lambda readWhitespace: the first byte that is no space, tab,
\* newline or comma
readWhitespace(text, pos) ==
    LET stops == {i \in pos..Len(text) :
                     text[i] \notin {Chars.space, Chars.tab, Chars.newline, Chars.comma}}
    IN IF stops = {} THEN [ch |-> Chars.EOF, pos |-> Failed(text)]
       ELSE [ch |-> text[Least(stops)], pos |-> Least(stops) + 1]

\* the bytes a number is collected from
NumberStart == (Chars.zero..Chars.nine) \cup {Chars.minus, Chars.plus, Chars.dot}
NumberPart == NumberStart \cup {Chars.upperE, Chars.lowerE}

\* stream.get() == word[1] && stream.get() == word[2] && ...
Spells(text, pos, word) ==
    \A i \in 1..Len(word) : pos + i - 1 <= Len(text) /\ text[pos + i - 1] = word[i]

RECURSIVE fromStream(_, _, _)
RECURSIVE readMembers(_, _, _, _)
RECURSIVE readElements(_, _, _, _)

\* the loop of the '{' branch, entered at pos with the members made so far
readMembers(text, pos, made, charSigned) ==
    LET letter == readWhitespace(text, pos)
        name == readString(text, letter.pos, <<>>)
        colon == readWhitespace(text, name.pos)
        value == fromStream(text, colon.pos, charSigned)
    IN IF letter.ch # Chars.quote THEN TextReturned(JSONobject(made), letter.pos)
       ELSE IF name.err # "none" THEN TextThrown(name.err, name.pos)
       ELSE IF colon.ch # Chars.colon THEN TextThrown("runtime_error", colon.pos)
       ELSE IF value.err # "none" THEN value
       ELSE readMembers(text, value.pos,
                        Bind(made, StringRoundTrip(name.s, charSigned), value.v),
                        charSigned)

\* the loop of the '[' branch.  On the failed stream of a signed-char build
\* every further fromStream returns a null and the loop never ends.
readElements(text, pos, made, charSigned) ==
    LET letter == readWhitespace(text, pos)
        value == fromStream(text, Unget(text, letter.pos), charSigned)
    IN IF letter.ch = Chars.closeBracket
       THEN TextReturned(JSONarray(made), letter.pos)
       ELSE IF letter.pos = Failed(text) /\ charSigned
       THEN TextThrown("exhausted", letter.pos)
       ELSE IF value.err # "none" THEN value
       ELSE readElements(text, value.pos, Append(made, value.v), charSigned)

fromStream(text, pos, charSigned) ==
    LET letter == readWhitespace(text, pos)
        at == letter.pos
        str == readString(text, at, <<>>)
        ends == {i \in at..Len(text) : text[i] \notin NumberPart}
        end == IF ends = {} THEN Len(text) + 1 ELSE Least(ends)
        asString == SubSeq(text, at - 1, end - 1)
    IN CASE letter.ch = 0 \/ IsEOF(letter.ch, charSigned) -> TextReturned(JSONnull, at)
         [] letter.ch = Chars.quote ->
               IF str.err # "none" THEN TextThrown(str.err, str.pos)
               ELSE TextReturned(JSONstring(str.s, charSigned), str.pos)
         [] letter.ch = Text.true[1] ->
               IF Spells(text, at, Tail(Text.true))
               THEN TextReturned(JSONbool(TRUE), at + 3)
               ELSE TextThrown("runtime_error", at)
         [] letter.ch = Text.false[1] ->
               IF Spells(text, at, Tail(Text.false))
               THEN TextReturned(JSONbool(FALSE), at + 4)
               ELSE TextThrown("runtime_error", at)
         [] letter.ch = Text.null[1] ->
               IF Spells(text, at, Tail(Text.null))
               THEN TextReturned(JSONnull, at + 3)
               ELSE TextThrown("runtime_error", at)
         [] letter.ch \in NumberStart ->
               TextReturned(JSONnumber(ParseDouble(asString)),
                            IF ends = {} THEN Failed(text) ELSE end)
         [] letter.ch = Chars.openBrace -> readMembers(text, at, <<>>, charSigned)
         [] letter.ch = Chars.openBracket -> readElements(text, at, <<>>, charSigned)
         [] OTHER -> TextThrown("runtime_error", at)

\* JSONformat::deserialise
JSONformatDeserialise(source, charSigned) == fromStream(source, 1, charSigned)

----------------------------------------------------------------------------
(* The values handed to the codecs.  They are built as a caller builds     *)
(* them, through the JSON constructors, so a string or a key holds what    *)
(* the build's constructor stores for it.                                  *)

MaxArrayLen == 14        \* the longest array handed to an encoder
MaxShortLen == 2         \* arrays of every content are built up to this length

Dbl(n) == Int64ToDouble(Int64Of(n))
TwoTo(e) == MkDouble(0, 1023 + e, Zeros(52))
MinusTwoTo(e) == MkDouble(1, 1023 + e, Zeros(52))

IntegerInputs ==
    {Dbl(n) : n \in {0, 15, 16, -16, -17, 255, 2047, 2048, -2048, -2049,
                     32766, 32767, -32767, -32768, 65534, 65535, 65536,
                     2147483646, 2147483647, -2147483647}}
    \cup {MinusTwoTo(31), TwoTo(31), UIntToDouble(0, Ones(32) \o Zeros(32)),
          TwoTo(32), MinusTwoTo(63), TwoTo(63), TwoTo(62)}

FractionInputs ==
    {BitsOfBytes(<<154, 153, 153, 153, 153, 153, 185, 63>>),   \* 0.1
     BitsOfBytes(<<0, 0, 0, 0, 0, 0, 224, 63>>),               \* 0.5
     BitsOfBytes(<<0, 0, 0, 0, 0, 0, 248, 191>>),              \* -1.5
     BitsOfBytes(<<0, 0, 0, 160, 153, 153, 185, 63>>),         \* 0.1f
     BitsOfBytes(<<85, 85, 85, 85, 85, 85, 213, 63>>),         \* 1.0 / 3
     BitsOfBytes(<<0, 0, 0, 0, 0, 0, 0, 128>>),                \* -0.0
     BitsOfBytes(<<156, 117, 0, 136, 60, 228, 55, 126>>),      \* 1e300
     BitsOfBytes(<<1, 0, 0, 0, 0, 0, 0, 0>>)}                  \* 4.9e-324

NonFiniteInputs ==
    {MkDouble(0, 2047, Zeros(52)),                             \* infinity
     MkDouble(0, 2047, Zeros(51) \o <<1>>)}                    \* NaN

Letters(n) == [i \in 1..n |-> 97 + (i % 26)]

StringInputs ==
    {<<>>, <<97>>, <<195, 169>>, Letters(STRING_BREAKPOINT),
     Letters(STRING_BREAKPOINT + 1),
     Letters(CondensedInfo.MAX_SHORT_STRING_SIZE - 1),
     Letters(CondensedInfo.MAX_SHORT_STRING_SIZE)}

KeyInputs == {<<97>>, <<98>>, <<97, 98>>, <<>>, <<195>>}

Scalars(charSigned) ==
    {JSONnull, JSONbool(FALSE), JSONbool(TRUE)}
    \cup {JSONnumber(d) : d \in IntegerInputs \cup FractionInputs \cup NonFiniteInputs}
    \cup {JSONstring(str, charSigned) : str \in StringInputs}

Leaves(charSigned) ==
    {JSONnull, JSONbool(TRUE), JSONnumber(Dbl(7)), JSONnumber(Dbl(300)),
     JSONstring(<<97>>, charSigned)}

Repeated(x, n) == [i \in 1..n |-> x]

ShortArrays(charSigned) ==
    UNION {{JSONarray(a) : a \in [1..n -> Leaves(charSigned)]} : n \in 0..MaxShortLen}

LongArrays ==
    {JSONarray(Repeated(x, n)) :
        x \in {JSONnull, JSONnumber(Dbl(7))}, n \in (MaxArrayLen - 1)..MaxArrayLen}

Key(k, charSigned) == StringRoundTrip(k, charSigned)

Object1(k, x, charSigned) == JSONobject(Bind(<<>>, Key(k, charSigned), x))
Object2(k, x, l, y, charSigned) ==
    JSONobject(Bind(Bind(<<>>, Key(k, charSigned), x), Key(l, charSigned), y))

FlatObjects(charSigned) ==
    {JSONobject(<<>>)}
    \cup {Object1(k, x, charSigned) :
            k \in KeyInputs, x \in {JSONnull, JSONnumber(Dbl(7))}}
    \cup {Object2(<<97>>, JSONnumber(Dbl(7)), l, JSONbool(TRUE), charSigned) :
            l \in KeyInputs \ {<<97>>}}

\* values that hold several objects of one shape, as members and as elements
NestedInputs(charSigned) ==
    LET one(k, d) == Object1(k, JSONnumber(Dbl(d)), charSigned)
        two(d) == Object2(<<97>>, JSONnumber(Dbl(d)), <<98>>, JSONnull, charSigned)
    IN UNION {
         {JSONarray(<<a, JSONnumber(Dbl(7))>>) : a \in LongArrays},
         {JSONarray(<<one(k, 1), one(k, 2)>>) : k \in {<<97>>, <<97, 98>>}},
         {JSONarray(<<two(1), two(2)>>)},
         {Object2(<<120>>, one(k, 1), <<121>>, one(k, 2), charSigned) :
             k \in {<<97>>, <<97, 98>>}},
         {Object2(<<120>>, two(1), <<121>>, two(2), charSigned)},
         {Object1(<<97>>, one(<<97>>, 1), charSigned)},
         {Object2(<<120>>, JSONarray(<<one(<<97>>, 1)>>),
                  <<121>>, one(<<97>>, 2), charSigned)},
         {JSONarray(<<JSONarray(<<>>), JSONobject(<<>>)>>)} }

Inputs(charSigned) ==
    Scalars(charSigned) \cup ShortArrays(charSigned) \cup LongArrays
    \cup FlatObjects(charSigned) \cup NestedInputs(charSigned)

Builds ==
    [charSigned : BOOLEAN,
     preferred : {"HALF_PRECISION", "SINGLE_PRECISION", "DOUBLE_PRECISION"},
     fpConv : {"indefinite", "saturate"},
     hashOrder : {"ascending", "descending"}]

NotDecoded == [err |-> "not run"]

----------------------------------------------------------------------------
(* The binary codec: a caller serialises a value with CondensedJSON and    *)
(* hands the bytes to CondensedJSON::deserialise.                          *)

Init ==
    /\ build \in Builds
    /\ input \in Inputs(build.charSigned)
    /\ pc = "built"
    /\ mapping = <<>>
    /\ named = <<>>
    /\ buffer = <<>>
    /\ decoded = NotDecoded
    /\ handles = <<>>
    /\ heap = <<>>
    /\ called = <<>>
    /\ aliased = {}
    /\ saving = FALSE
    /\ json = <<>>
    /\ slot = <<>>

Env(m) ==
    [mapping |-> m, charSigned |-> build.charSigned,
     preferred |-> build.preferred, fpConv |-> build.fpConv,
     hashOrder |-> build.hashOrder]

\* CondensedJSON::serialise
Serialise ==
    /\ pc = "built"
    /\ \E m \in generateObjectMapping(input, build.charSigned) :
          LET done == serialiseFrom(input, Env(m)) IN
          /\ mapping' = m
          /\ buffer' = done.buffer
          /\ named' = done.named
    /\ pc' = "encoded"
    /\ UNCHANGED <<build, input, decoded, heapVars, fieldVars>>

\* CondensedJSON::deserialise
Deserialise ==
    /\ pc = "encoded"
    /\ decoded' = deserialise(buffer, build.charSigned)
    /\ pc' = "decoded"
    /\ UNCHANGED <<build, input, mapping, named, buffer, heapVars, fieldVars>>

Next == Serialise \/ Deserialise

Spec == Init /\ [][Next]_vars


----------------------------------------------------------------------------
(* Properties of the binary codec *)

\* every number in the value is finite
RECURSIVE AllFinite(_)
AllFinite(v) ==
    CASE v.t = "NUMBER" -> IsFinite(number(v))
      [] v.t = "ARRAY" -> \A i \in 1..Len(v.a) : AllFinite(v.a[i])
      [] v.t = "OBJECT" -> \A k \in DOMAIN v.o : AllFinite(v.o[k])
      [] OTHER -> TRUE

\* same kind and payload, recursively; numbers compare with ==, objects by
\* key, whatever their iteration order
RECURSIVE SameValue(_, _)
SameValue(a, b) ==
    /\ a.t = b.t
    /\ CASE a.t = "NUMBER" -> DoubleEq(number(a), number(b))
         [] a.t = "ARRAY" ->
               /\ Len(a.a) = Len(b.a)
               /\ \A i \in 1..Len(a.a) : SameValue(a.a[i], b.a[i])
         [] a.t = "OBJECT" ->
               /\ DOMAIN a.o = DOMAIN b.o
               /\ \A k \in DOMAIN a.o : SameValue(a.o[k], b.o[k])
         [] OTHER -> a = b

\* C1: binary round trip.  For every value whose numbers are finite,
\* deserialise(serialise(v)) returns a value of the same kind and payload
\* as v.  Stated for the build that prefers double precision, where no
\* rounding of fractions is asked for.
BinaryRoundTrip ==
    (pc = "decoded" /\ build.preferred = "DOUBLE_PRECISION" /\ AllFinite(input))
        => (decoded.err = "none" /\ SameValue(decoded.v, input))

\* the key sets of the objects of a value, in a pre-order walk through
\* object members and array elements
RECURSIVE KeySetsIn(_)
KeySetsIn(v) ==
    CASE v.t = "ARRAY" -> Flatten([i \in 1..Len(v.a) |-> KeySetsIn(v.a[i])])
      [] v.t = "OBJECT" ->
            LET names == SortedKeys(DOMAIN v.o) IN
            <<DOMAIN v.o>> \o Flatten([i \in 1..Len(names) |-> KeySetsIn(v.o[names[i]])])
      [] OTHER -> <<>>

AsciiKeySet(keys) ==
    /\ keys # {}
    /\ \A k \in keys : \A i \in 1..Len(k) : k[i] \in 1..127

DescriptorOf(keys) == getDescriptor([k \in keys |-> JSONnull], build.charSigned).first

\* C3: shape dedup.  When a value holds two or more objects with the same
\* non-empty ASCII key set, as members or as array elements, the encoder
\* writes that key set's descriptor out in full exactly once.
ShapeWrittenOnce ==
    pc = "encoded" =>
        LET sets == KeySetsIn(input) IN
        \A i \in 1..Len(sets) :
            (AsciiKeySet(sets[i]) /\ Occurrences(sets, sets[i]) >= 2)
                => Occurrences(named, DescriptorOf(sets[i])) = 1

\* the number goes through the floating branch of the encoder
IsFraction(value) ==
    ~DoubleEq(value, Int64ToDouble(DoubleToInt64(value, build.fpConv)))

\* C4: precision.  With double as the preferred precision, encoding and
\* decoding a finite double with a fractional part returns it bit for bit.
DoublePreferredIsExact ==
    (/\ pc = "decoded"
     /\ build.preferred = "DOUBLE_PRECISION"
     /\ input.t = "NUMBER"
     /\ IsFinite(number(input))
     /\ IsFraction(number(input)))
        => (decoded.err = "none" /\ decoded.v = input)

InRange(n, low, high) == SLessEq(low, n) /\ SLessEq(n, high)

\* the lead bytes and payload size of the smallest integer form holding n
SmallestIntegerForms(n) ==
    IF InRange(n, Int64Of(-16), Int64Of(15))
    THEN [leads |-> {ByteOr(CondensedInfo.MINIMAL_INTEGER, b) : b \in 0..31},
          size |-> 0]
    ELSE IF InRange(n, Int64Of(-2048), Int64Of(2047))
    THEN [leads |-> {ByteOr(CondensedInfo.VERY_SHORT_INTEGER, b) : b \in 0..15},
          size |-> 1]
    ELSE IF InRange(n, Limits.int16_min, Limits.uint16_max)
    THEN [leads |-> (IF SLessEq(n, Limits.int16_max)
                    THEN {CondensedInfo.SIGNED_SHORT_INTEGER} ELSE {})
                   \cup (IF SLessEq(Zeros(64), n)
                         THEN {CondensedInfo.UNSIGNED_SHORT_INTEGER} ELSE {}),
          size |-> 2]
    ELSE IF InRange(n, Limits.int32_min, Limits.uint32_max)
    THEN [leads |-> (IF SLessEq(n, Limits.int32_max)
                    THEN {CondensedInfo.SIGNED_INTEGER} ELSE {})
                   \cup (IF SLessEq(Zeros(64), n)
                         THEN {CondensedInfo.UNSIGNED_INTEGER} ELSE {}),
          size |-> 4]
    ELSE [leads |-> {CondensedInfo.SIGNED_LONG_INTEGER}, size |-> 8]

\* the double is a whole number that an int64_t holds
IsWholeInt64(value) ==
    /\ IsFinite(value)
    /\ DExp(value) - 1023 <= 62 \/ value = MinusTwoTo(63)
    /\ DoubleEq(value, Int64ToDouble(DoubleToInt64(value, build.fpConv)))

\* C5: integer encoding choice.  A whole number is written in the smallest
\* form that holds it, the boundaries of each form included, and never in
\* the unsigned 64-bit form.
IntegerInSmallestForm ==
    (pc = "encoded" /\ input.t = "NUMBER" /\ IsWholeInt64(number(input)))
        => LET form == SmallestIntegerForms(DoubleToInt64(number(input), build.fpConv))
           IN /\ Len(buffer) = 1 + form.size
              /\ buffer[1] \in form.leads
              /\ buffer[1] # CondensedInfo.UNSIGNED_LONG_INTEGER


----------------------------------------------------------------------------
(* Strings: a caller builds a JSON from a std::string and reads it back    *)
(* with string(), or builds a key (JSON::String) from it and converts the  *)
(* key back to std::string.                                                *)

MaxStringLen == 9        \* the longest std::string handed over
StringBytes == {97, 195} \* a byte below 0x80 and one above

ByteStrings == UNION {[1..n -> StringBytes] : n \in 0..MaxStringLen}

InitString ==
    /\ build \in {b \in Builds : /\ b.preferred = "HALF_PRECISION"
                                 /\ b.fpConv = "indefinite"
                                 /\ b.hashOrder = "ascending"}
    /\ input \in ByteStrings
    /\ pc = "given"
    /\ mapping = <<>>
    /\ named = <<>>
    /\ buffer = <<>>
    /\ decoded = NotDecoded
    /\ handles = <<>>
    /\ heap = <<>>
    /\ called = <<>>
    /\ aliased = {}
    /\ saving = FALSE
    /\ json = <<>>
    /\ slot = <<>>

\* JSON(const std::string&)
ConstructValue ==
    /\ pc = "given"
    /\ decoded' = [v |-> JSONstring(input, build.charSigned)]
    /\ pc' = "value"
    /\ UNCHANGED <<build, input, mapping, named, buffer, heapVars, fieldVars>>

\* type() and string() on the value built
ReadString ==
    /\ pc = "value"
    /\ decoded' = [v |-> decoded.v, kind |-> decoded.v.t, read |-> string(decoded.v)]
    /\ pc' = "read"
    /\ UNCHANGED <<build, input, mapping, named, buffer, heapVars, fieldVars>>

\* String(const std::string&)
ConstructKey ==
    /\ pc = "given"
    /\ decoded' = [key |-> StringFrom(input, build.charSigned)]
    /\ pc' = "key"
    /\ UNCHANGED <<build, input, mapping, named, buffer, heapVars, fieldVars>>

\* String::operator std::string()
ConvertKey ==
    /\ pc = "key"
    /\ decoded' = [key |-> decoded.key, back |-> StringToStd(decoded.key)]
    /\ pc' = "converted"
    /\ UNCHANGED <<build, input, mapping, named, buffer, heapVars, fieldVars>>

NextString == ConstructValue \/ ReadString \/ ConstructKey \/ ConvertKey

SpecString == InitString /\ [][NextString]_vars

\* C10: string fidelity.  A value built from any bytes 0x01..0xFF has kind
\* String and string() returns those bytes; a key built from them converts
\* back to those bytes.
StringFidelity ==
    /\ pc = "read" =>
          /\ decoded.kind = "STRING"
          /\ decoded.read.thrown = "none"
          /\ decoded.read.s = input
    /\ pc = "converted" => decoded.back = input

----------------------------------------------------------------------------
(* The text codec: a caller writes a value with JSONformat::serialise and  *)
(* hands the text to JSONformat::deserialise.                              *)

TextNumbers ==
    {Dbl(n) : n \in {0, 7, -16, 300, 100000, 999999, 1000000, 1234567}}
    \cup {BitsOfBytes(<<0, 0, 0, 0, 0, 0, 224, 63>>),          \* 0.5
          BitsOfBytes(<<0, 0, 0, 0, 0, 0, 248, 191>>),         \* -1.5
          BitsOfBytes(<<0, 0, 0, 0, 0, 0, 0, 128>>),           \* -0.0
          BitsOfBytes(<<0, 0, 0, 0, 128, 72, 147, 64>>),       \* 1234.125
          BitsOfBytes(<<0, 0, 0, 0, 127, 132, 46, 65>>)}       \* 999999.5

TextStrings ==
    {<<>>, <<97>>, <<97, 32, 98>>, <<97, 34, 98>>, <<97, 92, 98>>,
     <<97, 10, 98>>, <<195, 169>>, Letters(STRING_BREAKPOINT + 1)}

TextKeys == {<<97>>, <<97, 98>>, <<97, 10, 98>>, <<97, 34>>, <<>>}

TextScalars(charSigned) ==
    {JSONnull, JSONbool(FALSE), JSONbool(TRUE)}
    \cup {JSONnumber(d) : d \in TextNumbers}
    \cup {JSONstring(str, charSigned) : str \in TextStrings}

TextInputs(charSigned) ==
    TextScalars(charSigned)
    \cup ShortArrays(charSigned)
    \cup {JSONobject(<<>>)}
    \cup {Object1(k, x, charSigned) :
            k \in TextKeys, x \in {JSONnull, JSONnumber(Dbl(7))}}
    \cup {Object2(<<97>>, JSONnumber(Dbl(7)), <<98>>, x, charSigned) :
            x \in ShortArrays(charSigned)}
    \cup {JSONarray(<<Object1(<<97>>, JSONarray(<<x>>), charSigned), x>>) :
            x \in TextScalars(charSigned)}

InitText ==
    /\ build \in {b \in Builds : b.preferred = "DOUBLE_PRECISION"
                                 /\ b.fpConv = "indefinite"}
    /\ input \in TextInputs(build.charSigned)
    /\ pc = "made"
    /\ mapping = <<>>
    /\ named = <<>>
    /\ buffer = <<>>
    /\ decoded = NotDecoded
    /\ handles = <<>>
    /\ heap = <<>>
    /\ called = <<>>
    /\ aliased = {}
    /\ saving = FALSE
    /\ json = <<>>
    /\ slot = <<>>

\* JSONformat::serialise
ToText ==
    /\ pc = "made"
    /\ buffer' = JSONformatSerialise(input, build.hashOrder)
    /\ pc' = "written"
    /\ UNCHANGED <<build, input, mapping, named, decoded, heapVars, fieldVars>>

\* JSONformat::deserialise
FromText ==
    /\ pc = "written"
    /\ decoded' = JSONformatDeserialise(buffer, build.charSigned)
    /\ pc' = "parsed"
    /\ UNCHANGED <<build, input, mapping, named, buffer, heapVars, fieldVars>>

NextText == ToText \/ FromText

SpecText == InitText /\ [][NextText]_vars

\* C2: text round trip.  For every value whose numbers are finite, reading
\* the text written for it returns a value of the same kind and payload
\* (arrays and objects compared member by member, whatever the order the
\* members were written in).
TextRoundTrip ==
    (pc = "parsed" /\ AllFinite(input))
        => (decoded.err = "none" /\ SameValue(decoded.v, input))

----------------------------------------------------------------------------
(* Handles and payloads.  A handle is a JSON object of the caller: its     *)
(* word _contents, or Gone when it is not constructed.  A long string, an  *)
(* array and an object live in a block of the heap: the reference count,   *)
(* then the payload.  The heap is the sequence of the blocks allocated so  *)
(* far, a block's address its index; a block that was deleted stays in     *)
(* the sequence, marked freed.  The elements of an array and the members   *)
(* of an object are words themselves, handles that live in the block.      *)

Handles == {"a", "b"}
MaxCells == 2            \* blocks a run allocates at most
MaxElems == 1            \* elements an array is grown to at most
MaxRefs == 3             \* the highest reference count a run raises a block to

Gone == <<>>

\* internalAddress(): _contents & POINTER_MASK (the addresses of the model
\* fit in the lowest byte)
internalAddress(c) == c[1]

\* InternalType::X | (reinterpret_cast<uint64_t>(allocated) & POINTER_MASK)
WordAt(prefix, at) == <<at, 0, 0, 0, 0, 0>> \o prefix

\* allocate<T>(size): a new block with reference count 1
allocate(mem, made, chars, elements, members) ==
    Append(mem, [refs |-> 1, freed |-> FALSE, made |-> made, chars |-> chars,
                 array |-> elements, object |-> members])

\* refcount()++ for a word that uses the heap
refUp(c, mem) ==
    IF usesHeap(c) THEN [mem EXCEPT ![internalAddress(c)].refs = @ + 1] ELSE mem

\* the words held by a block, each a handle the block's destructor destroys
Held(cell) ==
    IF cell.made = "ArrayType" THEN cell.array
    ELSE IF cell.made = "ObjectType"
    THEN LET names == SortedKeys(DOMAIN cell.object)
         IN [i \in 1..Len(names) |-> cell.object[names[i]]]
    ELSE <<>>

RECURSIVE refUpAll(_, _)
refUpAll(words, mem) ==
    IF words = <<>> THEN mem ELSE refUpAll(Tail(words), refUp(Head(words), mem))

\* cleanup(): the count goes down; at zero the payload is destroyed, its
\* elements or members with it, and the block deleted
RECURSIVE cleanup(_, _)
RECURSIVE cleanupAll(_, _)
cleanup(c, mem) ==
    IF ~usesHeap(c) THEN mem
    ELSE LET at == internalAddress(c)
             less == [mem EXCEPT ![at].refs = @ - 1]
         IN IF less[at].refs # 0 THEN less
            ELSE [cleanupAll(Held(less[at]), less) EXCEPT ![at].freed = TRUE]

cleanupAll(words, mem) ==
    IF words = <<>> THEN mem
    ELSE cleanupAll(Tail(words), cleanup(Head(words), mem))

\* a word whose block was deleted: using it is undefined behaviour
Dangling(c, mem) == usesHeap(c) /\ mem[internalAddress(c)].freed

\* a copy constructor that would give the copy a block of its own
JSONcopyApart(other, mem) ==
    IF ~usesHeap(other) THEN [c |-> other, mem |-> mem]
    ELSE LET cell == mem[internalAddress(other)]
             placed == Append(mem, [cell EXCEPT !.refs = 1])
         IN [c |-> WordAt(TypePrefix(other), Len(mem) + 1),
             mem |-> refUpAll(Held(cell), placed)]

\* JSON(const JSON& other)
JSONcopy(other, mem) == [c |-> other, mem |-> refUp(other, mem)]

\* setString(value)
setString(value, mem, charSigned) ==
    IF Len(value) <= STRING_BREAKPOINT
    THEN [c |-> setShortString(value, charSigned), mem |-> mem]
    ELSE [c |-> WordAt(InternalType.LONG_STRING, Len(mem) + 1),
          mem |-> allocate(mem, "char", UpToZero(value) \o <<0>>, <<>>, <<>>)]

\* setObject(value): the members are copy-constructed into the new block
setObject(value, mem) ==
    LET placed == allocate(mem, "ObjectType", <<>>, <<>>, value)
    IN [c |-> WordAt(InternalType.OBJECT, Len(mem) + 1),
        mem |-> refUpAll(Held(placed[Len(placed)]), placed)]

\* setArray(value): the elements are copy-constructed into the new block
setArray(value, mem) ==
    LET placed == allocate(mem, "ArrayType", <<>>, value, <<>>)
    IN [c |-> WordAt(InternalType.ARRAY, Len(mem) + 1),
        mem |-> refUpAll(value, placed)]

\* unordered_map::operator[]: a key that is missing is inserted with a
\* default-constructed JSON, a null
subscript(members, key) ==
    IF key \in DOMAIN members THEN members ELSE Bind(members, key, setNull)

(* The typed accessors: [thrown |-> "none", v |-> what is returned] or    *)
(* [thrown |-> the exception].  object() and array() return the payload    *)
(* in place.                                                               *)

Threw(exception) == [thrown |-> exception, v |-> [t |-> "NIL"]]

\* boolean()
booleanGet(c) ==
    IF TypePrefix(c) # InternalType.BOOLEAN THEN Threw("JSONexception")
    ELSE [thrown |-> "none", v |-> [t |-> "BOOL", b |-> (c[1] % 2 = 1)]]

\* (_contents & INVALID_NUMBER_IDENTIFIER) != INVALID_NUMBER_IDENTIFIER
NotNaNBoxed(c) == ~(c[8] = 255 /\ c[7] >= 248)

\* a number() that would return whatever the word holds
numberUnchecked(c) == [thrown |-> "none", v |-> [t |-> "NUMBER", n |-> c]]

\* number()
numberGet(c) ==
    IF NotNaNBoxed(c) THEN [thrown |-> "none", v |-> [t |-> "NUMBER", n |-> c]]
    ELSE IF type(c) # "NUMBER" THEN Threw("JSONexception")
    ELSE [thrown |-> "none", v |-> [t |-> "NUMBER", n |-> c]]

\* string()
stringGet(c, mem) ==
    IF TypePrefix(c) = InternalType.SHORT_STRING
    THEN [thrown |-> "none", v |-> [t |-> "STRING", s |-> shortString(c)]]
    ELSE IF TypePrefix(c) = InternalType.LONG_STRING
    THEN [thrown |-> "none",
          v |-> [t |-> "STRING", s |-> UpToZero(mem[internalAddress(c)].chars)]]
    ELSE Threw("JSONexception")

\* object()
objectGet(c, mem) ==
    IF TypePrefix(c) # InternalType.OBJECT THEN Threw("JSONexception")
    ELSE [thrown |-> "none", v |-> [t |-> "OBJECT", o |-> mem[internalAddress(c)].object]]

\* array()
arrayGet(c, mem) ==
    IF TypePrefix(c) # InternalType.ARRAY THEN Threw("JSONexception")
    ELSE [thrown |-> "none", v |-> [t |-> "ARRAY", a |-> mem[internalAddress(c)].array]]

\* size() and the elements, as a caller sees them through a handle
Report(c, mem) ==
    LET cell == mem[internalAddress(c)] IN
    IF type(c) = "ARRAY" THEN [size |-> Len(cell.array), elements |-> cell.array]
    ELSE [size |-> Cardinality(DOMAIN cell.object), elements |-> cell.object]

----------------------------------------------------------------------------
(* A caller's run: any sequence of constructions, copies, moves,           *)
(* assignments, destructions and element updates on the handles.  aliased  *)
(* holds [pair |-> {x, y}, mutated |-> ...] for the handles x and y of     *)
(* which one was copy-constructed or copy-assigned from the other while    *)
(* that held an array or an object, and neither was assigned, moved from   *)
(* or destroyed since; mutated tells that an element was added or assigned *)
(* through one of them since.  After undefined behaviour the run is over:  *)
(* pc = "undefined".                                                       *)

HeapStrings == {<<97>>, Letters(STRING_BREAKPOINT + 1)}
HeapNumber == setNumber(Dbl(3))
HeapArrays == {<<>>, <<HeapNumber>>}
HeapKeys == {<<97>>}
AccessKeys == {<<97>>, <<98>>}
HeapObjects == {<<>>, Bind(<<>>, <<97>>, HeapNumber)}

Without(pairs, x) == {p \in pairs : x \notin p.pair}
Paired(x, y) == [pair |-> {x, y}, mutated |-> FALSE]
Mutated(pairs, x) ==
    {IF x \in p.pair THEN [p EXCEPT !.mutated = TRUE] ELSE p : p \in pairs}

CanAllocate == Len(heap) < MaxCells

\* the count of the block of c can be raised once more
CanShare(c, mem) == usesHeap(c) => mem[internalAddress(c)].refs < MaxRefs

NotCalled == [op |-> "none"]

InitHeap ==
    /\ build \in {b \in Builds : /\ b.charSigned
                                 /\ b.preferred = "HALF_PRECISION"
                                 /\ b.fpConv = "indefinite"
                                 /\ b.hashOrder = "ascending"}
    /\ input = JSONnull
    /\ pc = "running"
    /\ mapping = <<>>
    /\ named = <<>>
    /\ buffer = <<>>
    /\ decoded = NotDecoded
    /\ handles = [h \in Handles |-> Gone]
    /\ heap = <<>>
    /\ called = NotCalled
    /\ aliased = {}
    /\ saving = FALSE
    /\ json = <<>>
    /\ slot = <<>>

\* the handle x becomes made.c, the heap made.mem
Becomes(x, made) ==
    /\ handles' = [handles EXCEPT ![x] = made.c]
    /\ heap' = made.mem
    /\ aliased' = Without(aliased, x)
    /\ UNCHANGED <<pc, called, codecVars, fieldVars>>

\* JSON(), JSON(bool), JSON(T)
Construct(x) ==
    /\ pc = "running"
    /\ handles[x] = Gone
    /\ \E c \in {setNull, setBoolean(TRUE), HeapNumber} :
          Becomes(x, [c |-> c, mem |-> heap])

\* JSON(const std::string&)
ConstructString(x) ==
    /\ pc = "running"
    /\ handles[x] = Gone
    /\ \E value \in HeapStrings :
          /\ Len(value) > STRING_BREAKPOINT => CanAllocate
          /\ Becomes(x, setString(value, heap, build.charSigned))

\* JSON(const ArrayType&)
ConstructArray(x) ==
    /\ pc = "running"
    /\ handles[x] = Gone
    /\ CanAllocate
    /\ \E value \in HeapArrays : Becomes(x, setArray(value, heap))

\* JSON(const ObjectType&)
ConstructObject(x) ==
    /\ pc = "running"
    /\ handles[x] = Gone
    /\ CanAllocate
    /\ \E value \in HeapObjects : Becomes(x, setObject(value, heap))

\* JSON(const JSON& other)
CopyConstruct(x, y) ==
    /\ pc = "running"
    /\ handles[x] = Gone
    /\ handles[y] # Gone
    /\ CanShare(handles[y], heap)
    /\ LET made == JSONcopy(handles[y], heap) IN
       /\ handles' = [handles EXCEPT ![x] = made.c]
       /\ heap' = made.mem
    /\ aliased' = IF type(handles[y]) \in {"ARRAY", "OBJECT"}
                  THEN aliased \cup {Paired(x, y)} ELSE aliased
    /\ UNCHANGED <<pc, called, codecVars, fieldVars>>

\* JSON(JSON&& other)
MoveConstruct(x, y) ==
    /\ pc = "running"
    /\ handles[x] = Gone
    /\ handles[y] # Gone
    /\ handles' = [handles EXCEPT ![x] = handles[y], ![y] = setNull]
    /\ aliased' = Without(aliased, y)
    /\ UNCHANGED <<pc, heap, called, codecVars, fieldVars>>

\* ~JSON()
Destroy(x) ==
    /\ pc = "running"
    /\ handles[x] # Gone
    /\ handles' = [handles EXCEPT ![x] = Gone]
    /\ heap' = cleanup(handles[x], heap)
    /\ aliased' = Without(aliased, x)
    /\ UNCHANGED <<pc, called, codecVars, fieldVars>>

\* operator=(const JSON& other), x = x included: after cleanup() the count
\* of other's block is raised, also when cleanup() has just deleted it
CopyAssign(x, y) ==
    /\ pc = "running"
    /\ handles[x] # Gone
    /\ handles[y] # Gone
    /\ LET cleaned == cleanup(handles[x], heap)
           other == handles[y]
       IN /\ CanShare(other, cleaned)
          /\ handles' = [handles EXCEPT ![x] = other]
          /\ IF Dangling(other, cleaned)
             THEN heap' = cleaned /\ pc' = "undefined"
             ELSE heap' = refUp(other, cleaned) /\ pc' = pc
          /\ aliased' = IF x # y /\ type(other) \in {"ARRAY", "OBJECT"}
                        THEN Without(aliased, x) \cup {Paired(x, y)}
                        ELSE Without(aliased, x)
    /\ UNCHANGED <<called, codecVars, fieldVars>>

\* operator=(JSON&& other)
MoveAssign(x, y) ==
    /\ pc = "running"
    /\ handles[x] # Gone
    /\ handles[y] # Gone
    /\ handles' = [[handles EXCEPT ![x] = handles[y]] EXCEPT ![y] = setNull]
    /\ heap' = cleanup(handles[x], heap)
    /\ aliased' = Without(Without(aliased, x), y)
    /\ UNCHANGED <<pc, called, codecVars, fieldVars>>

\* operator=(bool&): boolean(value), which calls cleanup()
AssignBool(x) ==
    /\ pc = "running"
    /\ handles[x] # Gone
    /\ Becomes(x, [c |-> setBoolean(TRUE), mem |-> cleanup(handles[x], heap)])

\* operator=(double): setNumber(value), the old payload is not released
AssignNumber(x) ==
    /\ pc = "running"
    /\ handles[x] # Gone
    /\ Becomes(x, [c |-> HeapNumber, mem |-> heap])

\* operator=(std::nullptr_t): null(), which calls cleanup()
AssignNull(x) ==
    /\ pc = "running"
    /\ handles[x] # Gone
    /\ Becomes(x, [c |-> setNull, mem |-> cleanup(handles[x], heap)])

\* operator=(const std::string&): string(value), which calls cleanup()
AssignString(x) ==
    /\ pc = "running"
    /\ handles[x] # Gone
    /\ \E value \in HeapStrings :
          /\ Len(value) > STRING_BREAKPOINT => CanAllocate
          /\ Becomes(x, setString(value, cleanup(handles[x], heap), build.charSigned))

\* operator=(const ArrayType&): setArray(value), the old payload is not
\* released
AssignArray(x) ==
    /\ pc = "running"
    /\ handles[x] # Gone
    /\ CanAllocate
    /\ \E value \in HeapArrays : Becomes(x, setArray(value, heap))

\* operator=(const ObjectType&): setObject(value), the old payload is not
\* released
AssignObject(x) ==
    /\ pc = "running"
    /\ handles[x] # Gone
    /\ CanAllocate
    /\ \E value \in HeapObjects : Becomes(x, setObject(value, heap))

\* push_back(const JSON& added): array().push_back(added), with added
\* another handle, x itself, or the temporary JSON(3.0).  On a handle that
\* holds no array array() throws and nothing changes.
PushBack(x) ==
    /\ pc = "running"
    /\ handles[x] # Gone
    /\ arrayGet(handles[x], heap).thrown = "none"
    /\ LET at == internalAddress(handles[x]) IN
       /\ Len(heap[at].array) < MaxElems
       /\ \E added \in {HeapNumber} \cup {handles[y] : y \in {h \in Handles : handles[h] # Gone}} :
             /\ CanShare(added, heap)
             /\ heap' = [refUp(added, heap) EXCEPT ![at].array = Append(@, added)]
    /\ aliased' = Mutated(aliased, x)
    /\ UNCHANGED <<pc, handles, called, codecVars, fieldVars>>

\* operator=(const JSON& other) on a handle that lives in a block: the
\* heap after it, and whether the count of a deleted block was touched
AssignedElement(old, other, mem) ==
    LET cleaned == cleanup(old, mem) IN
    IF Dangling(other, cleaned) THEN [undefined |-> TRUE, mem |-> cleaned]
    ELSE [undefined |-> FALSE, mem |-> refUp(other, cleaned)]

\* x[index] = y: operator[](size_t) is array()[index], undefined when the
\* index is not below size()
IndexAssign(x, y) ==
    /\ pc = "running"
    /\ handles[x] # Gone
    /\ handles[y] # Gone
    /\ arrayGet(handles[x], heap).thrown = "none"
    /\ CanShare(handles[y], heap)
    /\ LET at == internalAddress(handles[x]) IN
       \E index \in 0..Len(heap[at].array) :
          IF index >= Len(heap[at].array)
          THEN pc' = "undefined" /\ UNCHANGED <<heap, aliased>>
          ELSE LET put == AssignedElement(heap[at].array[index + 1], handles[y], heap) IN
               /\ heap' = [put.mem EXCEPT ![at].array[index + 1] = handles[y]]
               /\ pc' = IF put.undefined THEN "undefined" ELSE pc
               /\ aliased' = Mutated(aliased, x)
    /\ UNCHANGED <<handles, called, codecVars, fieldVars>>

\* x[index] = 3.0: operator=(double) on the element, whose old payload is
\* not released
IndexAssignNumber(x) ==
    /\ pc = "running"
    /\ handles[x] # Gone
    /\ arrayGet(handles[x], heap).thrown = "none"
    /\ LET at == internalAddress(handles[x]) IN
       \E index \in 0..Len(heap[at].array) :
          IF index >= Len(heap[at].array)
          THEN pc' = "undefined" /\ UNCHANGED <<heap, aliased>>
          ELSE /\ heap' = [heap EXCEPT ![at].array[index + 1] = HeapNumber]
               /\ aliased' = Mutated(aliased, x)
               /\ pc' = pc
    /\ UNCHANGED <<handles, called, codecVars, fieldVars>>

\* x[key] = y: operator[](const String&) is object()[index]
KeyAssign(x, y) ==
    /\ pc = "running"
    /\ handles[x] # Gone
    /\ handles[y] # Gone
    /\ objectGet(handles[x], heap).thrown = "none"
    /\ CanShare(handles[y], heap)
    /\ \E name \in HeapKeys :
          LET key == Key(name, build.charSigned)
              at == internalAddress(handles[x])
              found == subscript(heap[at].object, key)
              put == AssignedElement(found[key], handles[y], heap)
          IN /\ heap' = [put.mem EXCEPT ![at].object = Bind(found, key, handles[y])]
             /\ pc' = IF put.undefined THEN "undefined" ELSE pc
    /\ aliased' = Mutated(aliased, x)
    /\ UNCHANGED <<handles, called, codecVars, fieldVars>>

NextHeap ==
    \E x \in Handles :
       \/ Construct(x)
       \/ ConstructString(x)
       \/ ConstructArray(x)
       \/ ConstructObject(x)
       \/ Destroy(x)
       \/ AssignBool(x)
       \/ AssignNumber(x)
       \/ AssignNull(x)
       \/ AssignString(x)
       \/ AssignArray(x)
       \/ AssignObject(x)
       \/ PushBack(x)
       \/ IndexAssignNumber(x)
       \/ \E y \in Handles :
             \/ CopyConstruct(x, y)
             \/ MoveConstruct(x, y)
             \/ CopyAssign(x, y)
             \/ MoveAssign(x, y)
             \/ IndexAssign(x, y)
             \/ KeyAssign(x, y)

SpecHeap == InitHeap /\ [][NextHeap]_vars

Refers(c, at) == c # Gone /\ usesHeap(c) /\ internalAddress(c) = at

\* the handles that refer to the block at: the caller's, and the elements
\* and members of the blocks that are not freed
Referrers(at) ==
    Cardinality({h \in Handles : Refers(handles[h], at)})
    + Cardinality(UNION {{<<k, i>> : i \in {j \in 1..Len(Held(heap[k])) :
                                              Refers(Held(heap[k])[j], at)}} :
                         k \in {n \in 1..Len(heap) : ~heap[n].freed}})

\* C6: lifecycle.  After any sequence of constructions, copies, moves,
\* assignments and destructions, the reference count of every payload is
\* the number of live handles that refer to it; a payload no handle refers
\* to is freed, and a freed payload has no handle referring to it.
CountsMatchHandles ==
    \A at \in 1..Len(heap) :
       IF heap[at].freed THEN Referrers(at) = 0
       ELSE heap[at].refs = Referrers(at) /\ Referrers(at) > 0

\* C7: aliasing.  When one of two handles was copy-constructed or
\* copy-assigned from the other, which held an array or an object, then
\* after any push_back and any keyed or indexed element assignment through
\* either of them both report the same size and the same elements.
AliasesAgree ==
    \A p \in aliased : \A x \in p.pair, y \in p.pair :
       Report(handles[x], heap) = Report(handles[y], heap)

\* two aliased handles, an element added or assigned through one of them
AliasMutated ==
    \E p \in aliased :
       /\ p.mutated
       /\ Cardinality(p.pair) = 2
       /\ \A x \in p.pair : Report(handles[x], heap).size > 0

----------------------------------------------------------------------------
(* Reading a value: a handle holds a value a caller has built, and the     *)
(* caller calls the typed accessors and the keyed operator[] on it.        *)
(* called records the last call and its outcome.                           *)

Call(op, key, outcome, value) ==
    [op |-> op, key |-> key, outcome |-> outcome, value |-> value]

AccessStrings ==
    {<<>>, <<97>>, <<195>>, <<195, 169>>, <<97, 195, 169>>,
     Letters(STRING_BREAKPOINT), Letters(STRING_BREAKPOINT + 1)}

AccessNumbers ==
    {setNumber(d) : d \in {Dbl(0), Dbl(3), MinusTwoTo(63)} \cup NonFiniteInputs}

AccessObjects ==
    {<<>>, Bind(<<>>, <<97>>, HeapNumber),
     Bind(Bind(<<>>, <<97>>, setNull), <<98>>, setBoolean(TRUE))}

\* the values built, each with the heap it is built in
Built(charSigned) ==
    {[c |-> c, mem |-> <<>>] :
        c \in {setNull, setBoolean(FALSE), setBoolean(TRUE)} \cup AccessNumbers}
    \cup {setString(value, <<>>, charSigned) : value \in AccessStrings}
    \cup {setArray(value, <<>>) : value \in HeapArrays}
    \cup {setObject(value, <<>>) : value \in AccessObjects}

InitAccess ==
    /\ build \in {b \in Builds : /\ b.preferred = "HALF_PRECISION"
                                 /\ b.fpConv = "indefinite"
                                 /\ b.hashOrder = "ascending"}
    /\ input = JSONnull
    /\ pc = "running"
    /\ mapping = <<>>
    /\ named = <<>>
    /\ buffer = <<>>
    /\ decoded = NotDecoded
    /\ \E made \in Built(build.charSigned) :
          /\ handles = [h \in Handles |-> IF h = "a" THEN made.c ELSE Gone]
          /\ heap = made.mem
    /\ called = NotCalled
    /\ aliased = {}
    /\ saving = FALSE
    /\ json = <<>>
    /\ slot = <<>>

\* a call that throws: nothing changes
Throws(op, key, exception) ==
    /\ called' = Call(op, key, exception, [t |-> "NIL"])
    /\ UNCHANGED <<pc, handles, heap, aliased, codecVars, fieldVars>>

\* a call that only reads
Returns(op, key, value) ==
    /\ called' = Call(op, key, "returned", value)
    /\ UNCHANGED <<pc, handles, heap, aliased, codecVars, fieldVars>>

\* a typed accessor called on the handle a
Accessed(op, got) ==
    IF got.thrown # "none" THEN Throws(op, <<>>, got.thrown)
    ELSE Returns(op, <<>>, got.v)

\* boolean()
Boolean ==
    /\ pc = "running"
    /\ Accessed("boolean", booleanGet(handles["a"]))

\* number()
Number ==
    /\ pc = "running"
    /\ Accessed("number", numberGet(handles["a"]))

\* string()
String ==
    /\ pc = "running"
    /\ Accessed("string", stringGet(handles["a"], heap))

\* object()
Object ==
    /\ pc = "running"
    /\ Accessed("object", objectGet(handles["a"], heap))

\* array()
Array ==
    /\ pc = "running"
    /\ Accessed("array", arrayGet(handles["a"], heap))


\* a[key] through the non-const operator[](const String&): object()[index]
Subscript ==
    \E name \in AccessKeys :
       LET key == Key(name, build.charSigned)
           got == objectGet(handles["a"], heap)
           at == internalAddress(handles["a"])
       IN IF got.thrown # "none"
          THEN Throws("operator[](const String&)", key, got.thrown)
          ELSE /\ heap' = [heap EXCEPT ![at].object = subscript(@, key)]
               /\ called' = Call("operator[](const String&)", key, "returned",
                                 [t |-> "JSON&", c |-> subscript(heap[at].object, key)[key]])
               /\ UNCHANGED <<pc, handles, aliased, codecVars, fieldVars>>

\* a const operator[] that would insert as the non-const one does
SubscriptConstInserting ==
    \E name \in AccessKeys :
       LET key == Key(name, build.charSigned)
           at == internalAddress(handles["a"])
       IN IF TypePrefix(handles["a"]) # InternalType.OBJECT
          THEN Throws("operator[](const String&) const", key, "JSONexception")
          ELSE /\ heap' = [heap EXCEPT ![at].object = subscript(@, key)]
               /\ called' = Call("operator[](const String&) const", key, "returned",
                                 [t |-> "JSON&", c |-> subscript(heap[at].object, key)[key]])
               /\ UNCHANGED <<pc, handles, aliased, codecVars, fieldVars>>

\* a[key] through operator[](const String&) const: at(index)
SubscriptConst ==
    \E name \in AccessKeys :
       LET key == Key(name, build.charSigned)
           at == internalAddress(handles["a"])
       IN IF TypePrefix(handles["a"]) # InternalType.OBJECT
          THEN Throws("operator[](const String&) const", key, "JSONexception")
          ELSE IF key \notin DOMAIN heap[at].object
          THEN Throws("operator[](const String&) const", key, "std::out_of_range")
          ELSE Returns("operator[](const String&) const", key,
                       [t |-> "JSON&", c |-> heap[at].object[key]])

NextAccess ==
    \/ Boolean
    \/ Number
    \/ String
    \/ Object
    \/ Array
    \/ Subscript
    \/ SubscriptConst

SpecAccess == InitAccess /\ [][NextAccess]_vars

AccessorKind ==
    [boolean |-> "BOOL", number |-> "NUMBER", string |-> "STRING",
     object |-> "OBJECT", array |-> "ARRAY"]

\* C8: typed accessors.  Each of boolean(), number(), string(), object()
\* and array() returns a payload of its kind exactly when type() is that
\* kind; otherwise it throws JSONexception and the handle and the heap are
\* as they were.
AccessorsFollowType ==
    [][called'.op \in DOMAIN AccessorKind =>
          LET c == handles["a"] IN
          /\ called'.outcome = "returned" <=> type(c) = AccessorKind[called'.op]
          /\ called'.outcome = "returned" => called'.value.t = AccessorKind[called'.op]
          /\ called'.outcome # "returned" =>
                /\ called'.outcome = "JSONexception"
                /\ handles' = handles
                /\ heap' = heap]_vars

\* an accessor of another kind than the value's has thrown
AccessorThrew ==
    /\ called.op \in DOMAIN AccessorKind
    /\ called.outcome = "JSONexception"
    /\ type(handles["a"]) # AccessorKind[called.op]

KeyedReads == {"operator[](const String&)", "operator[](const String&) const"}

\* the step is a keyed read of a key the object does not hold
MissingKeyRead ==
    /\ called'.op \in KeyedReads
    /\ type(handles["a"]) = "OBJECT"
    /\ called'.key \notin DOMAIN heap[internalAddress(handles["a"])].object

\* C9 as stated: keyed access to a key the object does not hold fails
\* with an error and leaves the key set as it was, through the const and
\* through the non-const operator.
MissingKeyFails ==
    [][MissingKeyRead =>
          LET at == internalAddress(handles["a"]) IN
          /\ called'.outcome # "returned"
          /\ DOMAIN heap'[at].object = DOMAIN heap[at].object]_vars

\* C9, amended: through the const operator a missing key throws
\* std::out_of_range and nothing changes; through the non-const operator
\* the key is inserted with a null and the call returns that member.
MissingKeyThrowsOrInserts ==
    [][MissingKeyRead =>
          LET at == internalAddress(handles["a"]) IN
          IF called'.op = "operator[](const String&) const"
          THEN /\ called'.outcome = "std::out_of_range"
               /\ heap' = heap
               /\ handles' = handles
          ELSE /\ called'.outcome = "returned"
               /\ called'.value = [t |-> "JSON&", c |-> setNull]
               /\ handles' = handles
               /\ heap' = [heap EXCEPT ![at].object = Bind(@, called'.key, setNull)]]_vars

\* the const operator has thrown for a key the object does not hold
MissingKeyThrown ==
    /\ called.op = "operator[](const String&) const"
    /\ called.outcome = "std::out_of_range"
    /\ type(handles["a"]) = "OBJECT"
    /\ called.key \notin DOMAIN heap[internalAddress(handles["a"])].object

----------------------------------------------------------------------------
(* Storing a double: the caller holds a double (input, its 64-bit word)    *)
(* and stores it into the handle a, by constructing the handle from it, by *)
(* operator=(double) or by number(double).                                 *)

NaNInputs ==
    {MkDouble(0, 2047, Zeros(51) \o <<1>>),                    \* quiet NaN
     MkDouble(1, 2047, Zeros(51) \o <<1>>),                    \* 0.0 / 0.0 on x86
     MkDouble(0, 2047, <<1>> \o Zeros(51)),                    \* signalling NaN
     MkDouble(1, 2047, Zeros(48) \o <<1, 0, 1, 1>>),           \* bits of an ARRAY word
     MkDouble(0, 2047, Ones(52)),                              \* NAN_VALUE itself
     MkDouble(1, 2047, Ones(52))}

StoredDoubles ==
    {Dbl(0), Dbl(3), Dbl(-17), TwoTo(63), MkDouble(0, 2047, Zeros(52)),
     MkDouble(1, 2047, Zeros(52))}
    \cup FractionInputs \cup NaNInputs

InitStore ==
    /\ build \in {b \in Builds : /\ b.charSigned
                                 /\ b.preferred = "HALF_PRECISION"
                                 /\ b.fpConv = "indefinite"
                                 /\ b.hashOrder = "ascending"}
    /\ input \in StoredDoubles
    /\ pc = "made"
    /\ mapping = <<>>
    /\ named = <<>>
    /\ buffer = <<>>
    /\ decoded = NotDecoded
    /\ \/ handles = [h \in Handles |-> Gone] /\ heap = <<>>
       \/ \E made \in Built(build.charSigned) :
             /\ handles = [h \in Handles |-> IF h = "a" THEN made.c ELSE Gone]
             /\ heap = made.mem
    /\ called = NotCalled
    /\ aliased = {}
    /\ saving = FALSE
    /\ json = <<>>
    /\ slot = <<>>

Stored(op, c, mem) ==
    /\ pc' = "stored"
    /\ handles' = [handles EXCEPT !["a"] = c]
    /\ heap' = mem
    /\ called' = Call(op, <<>>, "returned", [t |-> "NIL"])
    /\ UNCHANGED <<aliased, codecVars, fieldVars>>

\* JSON(T value): setNumber(value)
StoreConstruct ==
    /\ pc = "made"
    /\ handles["a"] = Gone
    /\ Stored("JSON(T)", setNumber(input), heap)

\* operator=(double): setNumber(value)
StoreAssign ==
    /\ pc = "made"
    /\ handles["a"] # Gone
    /\ Stored("operator=(double)", setNumber(input), heap)

\* number(double): cleanup(), setNumber(value)
StoreNumber ==
    /\ pc = "made"
    /\ handles["a"] # Gone
    /\ Stored("number(double)", setNumber(input), cleanup(handles["a"], heap))

NextStore ==
    \/ StoreConstruct
    \/ StoreAssign
    \/ StoreNumber

SpecStore == InitStore /\ [][NextStore]_vars

\* C11: a NaN stored into a handle, by construction or by number
\* assignment, makes the handle read as Null: type() is NIL, not NUMBER.
NaNStoredReadsNull ==
    (pc = "stored" /\ IsNaN(input)) => type(handles["a"]) = "NIL"

----------------------------------------------------------------------------
(* Truncated binary input: a caller serialises a value, keeps a proper     *)
(* prefix of the bytes (buffer becomes the prefix, called records the      *)
(* length of the whole) and hands it to CondensedJSON::deserialise.  For   *)
(* the empty vector deserialise starts from source.data() - 1 and the      *)
(* first next() finds source >= end.                                       *)

\* CondensedJSON::deserialise on a proper prefix of the bytes written
DeserialiseTruncated ==
    /\ pc = "encoded"
    /\ \E kept \in 0..(Len(buffer) - 1) :
          /\ buffer' = SubSeq(buffer, 1, kept)
          /\ decoded' = deserialise(SubSeq(buffer, 1, kept), build.charSigned)
    /\ pc' = "truncated"
    /\ UNCHANGED <<build, input, mapping, named, heapVars, fieldVars>>

NextTruncated == Serialise \/ DeserialiseTruncated

SpecTruncated == Init /\ [][NextTruncated]_vars

\* C12: decoding a proper prefix of the bytes the encoder wrote, the
\* empty vector included, fails with the unexpected-end-of-data error and
\* returns no value.
TruncatedFailsWithEnd ==
    pc = "truncated" => decoded.err = "end"

----------------------------------------------------------------------------
(* Reserved tags: a caller hands CondensedJSON::deserialise bytes in which *)
(* a value starts with a given tag byte.  input describes the bytes:       *)
(* [context, tag, tail], the tag being where the decoder expects the       *)
(* start of a value: at the top, as the element of an array, as the second *)
(* element of an array or as the member of an object.                      *)

ReservedTags == {126, 61, 46, 4, 5, 6, 7}
OtherTags == {65, 45, 1}
TagContexts == {<<>>, <<33>>, <<34, 65>>, <<49, 225>>}
TagTails == {<<>>, <<65>>, <<0>>, [i \in 1..13 |-> 65], [i \in 1..14 |-> 65]}

InitReserved ==
    /\ build \in {b \in Builds : /\ b.preferred = "HALF_PRECISION"
                                 /\ b.fpConv = "indefinite"
                                 /\ b.hashOrder = "ascending"}
    /\ input \in [context : TagContexts, tag : ReservedTags \cup OtherTags,
                  tail : TagTails]
    /\ buffer = input.context \o <<input.tag>> \o input.tail
    /\ pc = "encoded"
    /\ mapping = <<>>
    /\ named = <<>>
    /\ decoded = NotDecoded
    /\ handles = <<>>
    /\ heap = <<>>
    /\ called = <<>>
    /\ aliased = {}
    /\ saving = FALSE
    /\ json = <<>>
    /\ slot = <<>>

NextReserved == Deserialise

SpecReserved == InitReserved /\ [][NextReserved]_vars

\* C13: decoding a value whose tag byte is one of the reserved patterns
\* (0x7E, 0x3D, 0x2E, 0x04..0x07) fails with the 'version is too low'
\* error; no reserved tag is accepted as the start of a value.
ReservedTagRejected ==
    (pc = "decoded" /\ input.tag \in ReservedTags) => decoded.err = "version"

----------------------------------------------------------------------------
(* Text that ends early: a caller writes a value with JSONformat, keeps a  *)
(* proper prefix of the characters (buffer becomes the prefix) and hands   *)
(* it to JSONformat::deserialise.                                          *)

\* JSONformat::deserialise on a proper prefix of the text written
FromTextCut ==
    /\ pc = "written"
    /\ \E kept \in 0..(Len(buffer) - 1) :
          /\ buffer' = SubSeq(buffer, 1, kept)
          /\ decoded' = JSONformatDeserialise(SubSeq(buffer, 1, kept), build.charSigned)
    /\ pc' = "cut"
    /\ UNCHANGED <<build, input, mapping, named, heapVars, fieldVars>>

NextTextCut == ToText \/ FromTextCut

SpecTextCut == InitText /\ [][NextTextCut]_vars

\* the text kept ends inside a keyword, inside a string or inside an array
\* or an object that is not closed (a prefix of a number's text may be a
\* number itself)
EndsInside == pc = "cut" /\ buffer # <<>> /\ input.t # "NUMBER"

\* C14: reading a text that ends inside a token or an open container
\* terminates and fails with a parse error; it returns no value and does
\* not read forever.
CutTextFailsToParse ==
    EndsInside => decoded.err = "runtime_error"

----------------------------------------------------------------------------
(* src/serialisable.hpp: class Serialisable.  Its JSON values are objects  *)
(* of the classes JSON (null), JSONstring, JSONdouble, JSONbool,           *)
(* JSONobject and JSONarray behind shared pointers; a value is modelled by *)
(* its class t and its member contents_ or value_ (s, d, b, o or a).  A   *)
(* getter of another class than the value's throws std::runtime_error.     *)

SharedJSON == [t |-> "NIL"]
SharedJSONstring(from) == [t |-> "STRING", s |-> from]
SharedJSONdouble(from) == [t |-> "NUMBER", d |-> from]
SharedJSONbool(from) == [t |-> "BOOL", b |-> from]
SharedJSONobject(members) == [t |-> "OBJECT", o |-> members]
SharedJSONarray(elements) == [t |-> "ARRAY", a |-> elements]

\* the outcome of a synch(): what it returned or threw, the JSON and the
\* field after it
Synched(returned, object, value) ==
    [outcome |-> returned, json |-> object, value |-> value]

\* preferencesJson_->getObject()[key] = made
Stores(object, key, made, value) ==
    IF object.t # "OBJECT" THEN Synched("runtime_error", object, value)
    ELSE Synched("true", SharedJSONobject(Bind(object.o, key, made)), value)

\* preferencesJson_->getObject().find(key) found the key
Finds(object, key) == object.t = "OBJECT" /\ key \in DOMAIN object.o

\* synch(const std::string& key, std::string& value)
synchString(isSaving, object, key, value) ==
    IF isSaving THEN Stores(object, key, SharedJSONstring(value), value)
    ELSE IF object.t # "OBJECT" THEN Synched("runtime_error", object, value)
    ELSE IF ~Finds(object, key) THEN Synched("false", object, value)
    ELSE IF object.o[key].t # "STRING"
    THEN Synched("runtime_error", object, value)
    ELSE Synched("true", object, object.o[key].s)

\* synch(const std::string& key, T& value) for an arithmetic T, here
\* int64_t held as its 64-bit word: after the if that looks the key up
\* comes return false, with no else
synchArithmetic(isSaving, object, key, value, fpConv) ==
    IF isSaving THEN Stores(object, key, SharedJSONdouble(Int64ToDouble(value)), value)
    ELSE IF object.t # "OBJECT" THEN Synched("runtime_error", object, value)
    ELSE IF ~Finds(object, key) THEN Synched("false", object, value)
    ELSE IF object.o[key].t # "NUMBER"
    THEN Synched("runtime_error", object, value)
    ELSE Synched("false", object, DoubleToInt64(object.o[key].d, fpConv))

\* synch(const std::string& key, bool& value)
synchBool(isSaving, object, key, value) ==
    IF isSaving THEN Stores(object, key, SharedJSONbool(value), value)
    ELSE IF object.t # "OBJECT" THEN Synched("runtime_error", object, value)
    ELSE IF ~Finds(object, key) THEN Synched("false", object, value)
    ELSE IF object.o[key].t # "BOOL"
    THEN Synched("runtime_error", object, value)
    ELSE Synched("true", object, object.o[key].b)

\* synch(const std::string& key, T& value) for a smart pointer T, here
\* std::shared_ptr<std::string>: <<>> is the null pointer, <<s>> points to s
synchPointer(isSaving, object, key, value) ==
    IF isSaving
    THEN (IF value = <<>> THEN Stores(object, key, SharedJSON, value)
          ELSE Stores(object, key, SharedJSONstring(value[1]), value))
    ELSE IF object.t # "OBJECT" THEN Synched("runtime_error", object, value)
    ELSE IF ~Finds(object, key) THEN Synched("false", object, <<>>)
    ELSE IF object.o[key].t = "NIL" THEN Synched("true", object, <<>>)
    ELSE LET inner == synchString(FALSE, object, key, <<>>) IN
         IF inner.outcome = "runtime_error"
         THEN Synched("runtime_error", object, <<<<>>>>)
         ELSE Synched("true", object, <<inner.value>>)

\* serialisation() of the class of the nested objects, which has one
\* field: void serialisation() { synch("s", s); }
InnerKey == <<115>>
InnerSerialisation(isSaving, object, value) ==
    LET done == synchString(isSaving, object, InnerKey, value.s) IN
    [outcome |-> done.outcome, json |-> done.json, value |-> [s |-> done.value]]

\* synch(const std::string& key, T& value) for a T derived from Serialisable
synchObject(isSaving, object, key, value) ==
    IF isSaving
    THEN LET making == InnerSerialisation(TRUE, SharedJSONobject(<<>>), value) IN
         Stores(object, key, making.json, value)
    ELSE IF object.t # "OBJECT" THEN Synched("runtime_error", object, value)
    ELSE IF ~Finds(object, key) THEN Synched("false", object, value)
    ELSE LET loaded == InnerSerialisation(FALSE, object.o[key], value) IN
         IF loaded.outcome = "runtime_error"
         THEN Synched("runtime_error", object, value)
         ELSE Synched("true", object, loaded.value)

\* the loop of the vector overload when loading: push_back(T()), then
\* the element's serialisation() on the i-th value of the array
RECURSIVE LoadEach(_, _)
LoadEach(elements, filled) ==
    IF elements = <<>> THEN [outcome |-> "true", value |-> filled]
    ELSE LET loaded == InnerSerialisation(FALSE, Head(elements), [s |-> <<>>]) IN
         IF loaded.outcome = "runtime_error"
         THEN [outcome |-> "runtime_error", value |-> Append(filled, [s |-> <<>>])]
         ELSE LoadEach(Tail(elements), Append(filled, loaded.value))

\* synch(const std::string& key, std::vector<T>& value) for a T derived
\* from Serialisable: when loading, value.clear() comes before the lookup
synchVector(isSaving, object, key, value) ==
    IF isSaving
    THEN Stores(object, key,
                SharedJSONarray([i \in 1..Len(value) |->
                    InnerSerialisation(TRUE, SharedJSONobject(<<>>), value[i]).json]),
                value)
    ELSE IF object.t # "OBJECT" THEN Synched("runtime_error", object, <<>>)
    ELSE IF ~Finds(object, key) THEN Synched("false", object, <<>>)
    ELSE IF object.o[key].t # "ARRAY"
    THEN Synched("runtime_error", object, <<>>)
    ELSE LET loaded == LoadEach(object.o[key].a, <<>>) IN
         Synched(loaded.outcome, object, loaded.value)

----------------------------------------------------------------------------
(* A description routine at work: json is preferencesJson_, saving is      *)
(* preferencesSaving_, slot is a field of the object, its type and value,  *)
(* and the routine calls the synch() overload of that type with a key.     *)

SynchKeys == {<<107>>, <<109>>}
SynchStrings == {<<>>, <<111, 108, 100>>}
InnerJSON(str) == SharedJSONobject(Bind(<<>>, InnerKey, SharedJSONstring(str)))

\* a field: its type and its value
SlotOf(kind, value) == [k \in {kind} |-> value]
KindOf(field) == CHOOSE k \in DOMAIN field : TRUE
ValueOf(field) == field[KindOf(field)]

SynchSlots ==
    {SlotOf("string", str) : str \in SynchStrings}
    \cup {SlotOf("arithmetic", Int64Of(n)) : n \in {0, 5}}
    \cup {SlotOf("bool", b) : b \in BOOLEAN}
    \cup {SlotOf("pointer", p) : p \in {<<>>, <<<<111, 108, 100>>>>}}
    \cup {SlotOf("object", [s |-> <<111, 108, 100>>])}
    \cup {SlotOf("vector", v) : v \in {<<>>, <<[s |-> <<111, 108, 100>>]>>}}

SynchBound ==
    {SharedJSON, SharedJSONstring(<<110, 101, 119>>), SharedJSONdouble(Dbl(3)),
     SharedJSONdouble(BitsOfBytes(<<0, 0, 0, 0, 0, 0, 248, 191>>)),
     SharedJSONbool(TRUE), SharedJSONbool(FALSE),
     InnerJSON(<<110, 101, 119>>), SharedJSONobject(<<>>),
     SharedJSONarray(<<>>),
     SharedJSONarray(<<InnerJSON(<<110, 101, 119>>), SharedJSONobject(<<>>)>>)}

SynchJSON ==
    {SharedJSONobject(<<>>), SharedJSONarray(<<>>)}
    \cup {SharedJSONobject(Bind(<<>>, <<107>>, bound)) : bound \in SynchBound}

InitSynch ==
    /\ build \in {b \in Builds : /\ b.charSigned
                                 /\ b.preferred = "HALF_PRECISION"
                                 /\ b.hashOrder = "ascending"}
    /\ input = JSONnull
    /\ pc = "describing"
    /\ mapping = <<>>
    /\ named = <<>>
    /\ buffer = <<>>
    /\ decoded = NotDecoded
    /\ handles = <<>>
    /\ heap = <<>>
    /\ called = NotCalled
    /\ aliased = {}
    /\ saving \in BOOLEAN
    /\ json \in SynchJSON
    /\ slot \in SynchSlots

\* a synch() overload was called with key and came to done
SynchCalled(op, key, done) ==
    /\ called' = Call(op, key, done.outcome, [t |-> "NIL"])
    /\ json' = done.json
    /\ slot' = SlotOf(KindOf(slot), done.value)
    /\ UNCHANGED <<pc, saving, handles, heap, aliased, codecVars>>

SynchString ==
    /\ pc = "describing"
    /\ KindOf(slot) = "string"
    /\ \E key \in SynchKeys :
          SynchCalled("synch(string)", key, synchString(saving, json, key, ValueOf(slot)))

SynchArithmetic ==
    /\ pc = "describing"
    /\ KindOf(slot) = "arithmetic"
    /\ \E key \in SynchKeys :
          SynchCalled("synch(arithmetic)", key,
                      synchArithmetic(saving, json, key, ValueOf(slot), build.fpConv))

SynchBool ==
    /\ pc = "describing"
    /\ KindOf(slot) = "bool"
    /\ \E key \in SynchKeys :
          SynchCalled("synch(bool)", key, synchBool(saving, json, key, ValueOf(slot)))

SynchPointer ==
    /\ pc = "describing"
    /\ KindOf(slot) = "pointer"
    /\ \E key \in SynchKeys :
          SynchCalled("synch(pointer)", key, synchPointer(saving, json, key, ValueOf(slot)))

SynchObject ==
    /\ pc = "describing"
    /\ KindOf(slot) = "object"
    /\ \E key \in SynchKeys :
          SynchCalled("synch(Serialisable)", key,
                      synchObject(saving, json, key, ValueOf(slot)))

SynchVector ==
    /\ pc = "describing"
    /\ KindOf(slot) = "vector"
    /\ \E key \in SynchKeys :
          SynchCalled("synch(vector)", key, synchVector(saving, json, key, ValueOf(slot)))

NextSynch ==
    \/ SynchString
    \/ SynchArithmetic
    \/ SynchBool
    \/ SynchPointer
    \/ SynchObject
    \/ SynchVector

SpecSynch == InitSynch /\ [][NextSynch]_vars

\* the step is a synch() that loads from a JSON object and does not throw
\* (a bound value of another kind than the field's makes the getter throw)
SynchLoads ==
    /\ called' # called \/ json' # json \/ slot' # slot
    /\ ~saving
    /\ json.t = "OBJECT"
    /\ called'.outcome # "runtime_error"

\* C15: while loading, every synch(key, slot) overload returns true
\* exactly when the key is in the current JSON object; when the key is
\* absent it returns false and leaves the slot as it was.
SynchReportsPresence ==
    [][SynchLoads =>
          /\ called'.outcome = "true" <=> Finds(json, called'.key)
          /\ ~Finds(json, called'.key) =>
                (called'.outcome = "false" /\ slot' = slot)]_vars

----------------------------------------------------------------------------
(* SerialisableInternals::Serialiser<T>: serialise(value) makes the JSON   *)
(* for a field, deserialise(result, value) sets a field from a JSON.  The  *)
(* JSON values are the views of the words, as the codecs take them.  A     *)
(* nullable field (std::shared_ptr<T>, std::unique_ptr<T>,                 *)
(* std::optional<T>) is <<>> when empty and <<p>> when it holds p.         *)

\* operator bool() of a JSON
operatorBool(value) ==
    IF value.t = "BOOL" THEN value.b
    ELSE IF value.t = "NIL" THEN FALSE
    ELSE TRUE

\* the outcome of a deserialise: the exception thrown and the field after
Loaded(exception, result) == [thrown |-> exception, result |-> result]

\* Serialiser<Serialisable::JSON>::serialise
serialiseJSON(value) == IF operatorBool(value) THEN value ELSE JSONnull

\* Serialiser<Serialisable::JSON>::deserialise
deserialiseJSON(result, value) ==
    IF value.t # "NIL" THEN Loaded("none", value) ELSE Loaded("none", JSONnull)

\* T(): what make_shared<T>(), make_unique<T>() and make_optional<T>() hold
DefaultOf(T) ==
    CASE T = "bool" -> FALSE
      [] T = "std::string" -> <<>>
      [] T = "double" -> Zeros(64)

\* Serialiser<T>::serialise for bool, std::string and double
serialiseAs(T, value, charSigned) ==
    CASE T = "bool" -> JSONbool(value)
      [] T = "std::string" -> JSONstring(value, charSigned)
      [] T = "double" -> JSONnumber(value)

\* Serialiser<T>::deserialise for bool, std::string and double: boolean(),
\* string() and number() throw on a JSON of another type
deserialiseAs(T, result, value) ==
    CASE T = "bool" ->
            IF value.t = "BOOL" THEN Loaded("none", value.b)
            ELSE Loaded("JSONexception", result)
      [] T = "std::string" ->
            IF value.t = "STRING" THEN Loaded("none", value.s)
            ELSE Loaded("JSONexception", result)
      [] T = "double" ->
            IF value.t = "NUMBER" THEN Loaded("none", number(value))
            ELSE Loaded("JSONexception", result)

\* Serialiser<std::shared_ptr<T>>::serialise, and the same for
\* std::unique_ptr<T> and std::optional<T>
serialiseNullable(T, value, charSigned) ==
    IF value # <<>> THEN serialiseAs(T, value[1], charSigned) ELSE JSONnull

\* Serialiser<std::shared_ptr<T>>::deserialise, and the same for
\* std::unique_ptr<T> and std::optional<T>
deserialiseNullable(T, result, value) ==
    IF operatorBool(value) /\ value.t # "NIL"
    THEN LET held == IF result = <<>> THEN DefaultOf(T) ELSE result[1]
             inner == deserialiseAs(T, held, value)
         IN Loaded(inner.thrown, <<inner.result>>)
    ELSE Loaded("none", <<>>)

----------------------------------------------------------------------------
(* A field saved and loaded through its Serialiser: slot is the field, its *)
(* type <<"JSON">> or <<wrapper, T>> and its value; input keeps the field  *)
(* as it was made; json is the JSON bound under the field's key.  The      *)
(* caller saves the field and loads it back (pc = "restored"), or loads it *)
(* from a JSON that was bound already (pc = "loaded").                     *)

Wrappers == {"std::shared_ptr", "std::unique_ptr", "std::optional"}

Payloads(T) ==
    CASE T = "bool" -> BOOLEAN
      [] T = "std::string" -> {<<>>, <<97>>, Letters(STRING_BREAKPOINT + 1)}
      [] T = "double" -> {Dbl(0), Dbl(3), BitsOfBytes(<<0, 0, 0, 0, 0, 0, 248, 191>>)}

PassedValues(charSigned) ==
    {JSONnull, JSONbool(FALSE), JSONbool(TRUE)}
    \cup {JSONnumber(d) : d \in {Dbl(0), Dbl(3), TwoTo(63)} \cup NonFiniteInputs}
    \cup {JSONstring(str, charSigned) : str \in {<<>>, <<97>>, Letters(STRING_BREAKPOINT + 1)}}
    \cup {JSONarray(<<>>), JSONarray(<<JSONbool(FALSE)>>), JSONobject(<<>>),
          JSONobject(Bind(<<>>, <<97>>, JSONnull))}

SerialiserSlots(charSigned) ==
    {SlotOf(<<"JSON">>, x) : x \in PassedValues(charSigned)}
    \cup UNION {{SlotOf(<<w, T>>, p) : p \in {<<>>} \cup {<<q>> : q \in Payloads(T)}} :
                  w \in Wrappers, T \in {"bool", "std::string", "double"}}

InitSerialiser ==
    /\ build \in {b \in Builds : /\ b.preferred = "HALF_PRECISION"
                                 /\ b.fpConv = "indefinite"
                                 /\ b.hashOrder = "ascending"}
    /\ slot \in SerialiserSlots(build.charSigned)
    /\ input = slot
    /\ json \in {JSONnull, JSONbool(FALSE), JSONbool(TRUE), JSONnumber(Dbl(3)),
                 JSONstring(<<97>>, build.charSigned), JSONarray(<<>>)}
    /\ pc = "made"
    /\ mapping = <<>>
    /\ named = <<>>
    /\ buffer = <<>>
    /\ decoded = NotDecoded
    /\ handles = <<>>
    /\ heap = <<>>
    /\ called = NotCalled
    /\ aliased = {}
    /\ saving = TRUE

\* a field's deserialise came to done
LoadedInto(op, done) ==
    /\ slot' = SlotOf(KindOf(slot), done.result)
    /\ called' = Call(op, <<>>, done.thrown, [t |-> "NIL"])
    /\ saving' = FALSE
    /\ pc' = IF pc = "saved" THEN "restored" ELSE "loaded"
    /\ UNCHANGED <<json, handles, heap, aliased, codecVars>>

\* object[key] = Serialiser<Serialisable::JSON>::serialise(value)
SerialiseJSON ==
    /\ pc = "made"
    /\ KindOf(slot) = <<"JSON">>
    /\ json' = serialiseJSON(ValueOf(slot))
    /\ pc' = "saved"
    /\ UNCHANGED <<saving, slot, heapVars, codecVars>>

\* Serialiser<Serialisable::JSON>::deserialise(value, found->second)
DeserialiseJSON ==
    /\ pc \in {"made", "saved"}
    /\ KindOf(slot) = <<"JSON">>
    /\ LoadedInto("Serialiser<JSON>::deserialise", deserialiseJSON(ValueOf(slot), json))

\* object[key] = Serialiser<T>::serialise(value) for a nullable T
SerialiseNullable ==
    /\ pc = "made"
    /\ KindOf(slot)[1] \in Wrappers
    /\ json' = serialiseNullable(KindOf(slot)[2], ValueOf(slot), build.charSigned)
    /\ pc' = "saved"
    /\ UNCHANGED <<saving, slot, heapVars, codecVars>>

\* Serialiser<T>::deserialise(value, found->second) for a nullable T
DeserialiseNullable ==
    /\ pc \in {"made", "saved"}
    /\ KindOf(slot)[1] \in Wrappers
    /\ LoadedInto("Serialiser<nullable>::deserialise",
                  deserialiseNullable(KindOf(slot)[2], ValueOf(slot), json))

NextSerialiser ==
    \/ SerialiseJSON
    \/ DeserialiseJSON
    \/ SerialiseNullable
    \/ DeserialiseNullable

SpecSerialiser == InitSerialiser /\ [][NextSerialiser]_vars

\* C16: a field of type Value passes through.  Saving a field that holds
\* x binds a value equal to x, Bool false and Null included; loading from
\* a bound value y leaves the field equal to y.
ValuePassesThrough ==
    KindOf(slot) = <<"JSON">> =>
       /\ pc = "saved" => json = ValueOf(input)
       /\ pc \in {"loaded", "restored"} => ValueOf(slot) = json

\* C17: a nullable field saved and loaded back is as it was: an empty
\* field is bound as null and comes back empty, a field holding p is
\* bound as the JSON of p and comes back holding p, false included.
NullableRestored ==
    KindOf(slot)[1] \in Wrappers =>
       /\ (pc = "saved" /\ ValueOf(input) = <<>>) => json = JSONnull
       /\ (pc = "saved" /\ ValueOf(input) # <<>>) =>
             json = serialiseAs(KindOf(slot)[2], ValueOf(input)[1], build.charSigned)
       /\ pc = "restored" => (called.outcome = "none" /\ slot = input)

----------------------------------------------------------------------------
(* Serialisable::toBase64 and Serialisable::fromBase64.  A byte is a       *)
(* number in 0..255 and a text is the sequence of its character codes.     *)
(* toBase64 reads s[1] and s[2] of each group of three before it tests     *)
(* whether they lie inside the vector: the bytes it finds beyond the end   *)
(* of the vector's data are whatever the memory holds there, here beyond.  *)

\* base64chars()[i]: the character for the six bits i
base64chars(i) ==
    CASE i < 26 -> 65 + i
      [] i >= 26 /\ i < 52 -> 97 + (i - 26)
      [] i >= 52 /\ i < 62 -> 48 + (i - 52)
      [] i = 62 -> 43
      [] i = 63 -> 47

\* InverseBase64::data: 0 for every character that base64chars does not hold
InverseBase64(c) ==
    IF \E i \in 0..63 : base64chars(i) = c
    THEN CHOOSE i \in 0..63 : base64chars(i) = c
    ELSE 0

\* '='
PadChar == 61

\* start[i] for the 0-based i, inside the vector's data or beyond its end
ByteAt(from, beyond, i) ==
    IF i < Len(from) THEN from[i + 1] ELSE beyond[i - Len(from) + 1]

\* the body of the loop of toBase64 for the group that starts at i
piece(from, beyond, i) ==
    LET s0 == ByteAt(from, beyond, i)
        s1 == ByteAt(from, beyond, i + 1)
        s2 == ByteAt(from, beyond, i + 2)
        p0 == base64chars(s0 \div 4)
        p1 == base64chars((s0 % 4) * 16 + (s1 \div 16))
        p2 == IF i + 1 < Len(from)
              THEN base64chars((s1 % 16) * 4 + (s2 \div 64)) ELSE PadChar
        p3 == IF i + 1 < Len(from) /\ i + 2 < Len(from)
              THEN base64chars(s2 % 64) ELSE PadChar
    IN <<p0, p1, p2, p3>>

RECURSIVE toBase64From(_, _, _)
toBase64From(from, beyond, i) ==
    IF i < Len(from)
    THEN piece(from, beyond, i) \o toBase64From(from, beyond, i + 3)
    ELSE <<>>

toBase64(from, beyond) == toBase64From(from, beyond, 0)

\* s[i] of the text for the 0-based i; the text's own terminating zero after it
CharAt(from, i) == IF i < Len(from) THEN from[i + 1] ELSE 0

RECURSIVE fromBase64From(_, _)
fromBase64From(from, i) ==
    IF i < Len(from)
    THEN LET s0 == CharAt(from, i)
             s1 == CharAt(from, i + 1)
             s2 == CharAt(from, i + 2)
             s3 == CharAt(from, i + 3)
             b0 == (InverseBase64(s0) * 4 + (InverseBase64(s1) \div 16)) % 256
             b1 == (InverseBase64(s1) * 16 + (InverseBase64(s2) \div 4)) % 256
             b2 == (InverseBase64(s2) * 64 + InverseBase64(s3)) % 256
             group == IF s2 # PadChar
                      THEN IF s3 # PadChar THEN <<b0, b1, b2>> ELSE <<b0, b1>>
                      ELSE <<b0>>
         IN group \o fromBase64From(from, i + 4)
    ELSE <<>>

\* fromBase64 without its tests for '=': three bytes from every group
RECURSIVE fromBase64Whole(_)
fromBase64Whole(from) ==
    IF from = <<>> THEN <<>>
    ELSE LET b0 == (InverseBase64(CharAt(from, 0)) * 4
                        + (InverseBase64(CharAt(from, 1)) \div 16)) % 256
             b1 == (InverseBase64(CharAt(from, 1)) * 16
                        + (InverseBase64(CharAt(from, 2)) \div 4)) % 256
             b2 == (InverseBase64(CharAt(from, 2)) * 64
                        + InverseBase64(CharAt(from, 3))) % 256
         IN <<b0, b1, b2>>
               \o fromBase64Whole(SubSeq(from, 5, Len(from)))

fromBase64(from) == fromBase64From(from, 0)

----------------------------------------------------------------------------
(* A byte vector written as Base64 and read back.  input is the vector     *)
(* and the two bytes that lie behind its data, buffer the text, decoded    *)
(* the vector read back.                                                   *)

MaxBytes == 4

ByteSamples == {0, 77, 130, 255}

BeyondSamples == {0, 16, 255}

RECURSIVE BytesUpTo(_)
BytesUpTo(n) ==
    IF n = 0 THEN {<<>>}
    ELSE LET shorter == BytesUpTo(n - 1)
         IN shorter \cup {Append(b, x) : b \in {c \in shorter : Len(c) = n - 1},
                                         x \in ByteSamples}

InitBase64 ==
    /\ build \in {b \in Builds : /\ b.charSigned
                                 /\ b.preferred = "HALF_PRECISION"
                                 /\ b.fpConv = "indefinite"
                                 /\ b.hashOrder = "ascending"}
    /\ input \in [bytes : BytesUpTo(MaxBytes),
                  beyond : {<<x, y>> : x \in BeyondSamples, y \in BeyondSamples}]
    /\ pc = "made"
    /\ mapping = <<>>
    /\ named = <<>>
    /\ buffer = <<>>
    /\ decoded = NotDecoded
    /\ handles = <<>>
    /\ heap = <<>>
    /\ called = NotCalled
    /\ aliased = {}
    /\ saving = FALSE
    /\ json = <<>>
    /\ slot = <<>>

\* text = Serialisable::toBase64(bytes)
ToBase64 ==
    /\ pc = "made"
    /\ buffer' = toBase64(input.bytes, input.beyond)
    /\ pc' = "inBase64"
    /\ UNCHANGED <<build, input, mapping, named, decoded, heapVars, fieldVars>>

\* back = Serialisable::fromBase64(text)
FromBase64 ==
    /\ pc = "inBase64"
    /\ decoded' = [err |-> "none", bytes |-> fromBase64(buffer)]
    /\ pc' = "fromBase64"
    /\ UNCHANGED <<build, input, mapping, named, buffer, heapVars, fieldVars>>

NextBase64 == ToBase64 \/ FromBase64

SpecBase64 == InitBase64 /\ [][NextBase64]_vars

\* C18: fromBase64(toBase64(b)) = b for every byte vector b, of a length
\* of 0, 1 and 2 modulo 3 alike.
Base64RoundTrip ==
    pc = "fromBase64" => decoded.bytes = input.bytes

\* a vector of each length modulo 3 was written and read back
Base64ReadBack ==
    /\ pc = "fromBase64"
    /\ Len(input.bytes) = MaxBytes
    /\ input.bytes[1] = 255
    /\ input.beyond = <<255, 16>>

\* ceil(n / 3)
Thirds(n) == (n + 2) \div 3

\* C19: toBase64(b) is the standard padded Base64 of b: its length is
\* 4 * ceil(len(b) / 3), the bits of the last data character that do not
\* come from b are zero, and the single byte 0x4D is written as "TQ==".
Base64IsStandard ==
    pc = "inBase64" =>
       /\ Len(buffer) = 4 * Thirds(Len(input.bytes))
       /\ Len(input.bytes) % 3 = 1 => InverseBase64(buffer[Len(buffer) - 2]) % 16 = 0
       /\ Len(input.bytes) % 3 = 2 => InverseBase64(buffer[Len(buffer) - 1]) % 4 = 0
       /\ input.bytes = <<77>> => buffer = <<84, 81, 61, 61>>

----------------------------------------------------------------------------
(* src/serialisable.hpp: serialise() and deserialise() of class            *)
(* Serialisable, for an object of the class with the one field s whose     *)
(* serialisation() is InnerSerialisation.                                  *)

\* JSON::writeString of src/serialisable.hpp
SharedWriteString(written) ==
    <<Chars.quote>>
    \o Flatten([i \in 1..Len(written) |->
                  CASE written[i] = Chars.quote -> <<Chars.slash, Chars.quote>>
                    [] written[i] = Chars.newline -> <<Chars.backslash, 110>>
                    [] written[i] = Chars.backslash -> <<Chars.backslash, Chars.backslash>>
                    [] OTHER -> <<written[i]>>])
    \o <<Chars.quote>>

\* write(out, depth) of JSON, JSONstring, JSONbool and JSONobject
RECURSIVE SharedWrite(_, _, _)
SharedWrite(written, depth, hashOrder) ==
    CASE written.t = "NIL" -> Text.null
      [] written.t = "STRING" -> SharedWriteString(written.s)
      [] written.t = "BOOL" -> IF written.b THEN Text.true ELSE Text.false
      [] written.t = "OBJECT" ->
            IF DOMAIN written.o = {} THEN <<Chars.openBrace, Chars.closeBrace>>
            ELSE LET names == IterationOrder(DOMAIN written.o, hashOrder)
                     member(i) ==
                         (IF i = 1 THEN <<>> ELSE <<Chars.comma, Chars.newline>>)
                         \o indent(depth + 1)
                         \o SharedWriteString(names[i])
                         \o <<Chars.colon, Chars.space>>
                         \o SharedWrite(written.o[names[i]], depth + 1, hashOrder)
                 IN <<Chars.openBrace, Chars.newline>>
                    \o Flatten([i \in 1..Len(names) |-> member(i)])
                    \o <<Chars.newline>> \o indent(depth) \o <<Chars.closeBrace>>

\* Serialisable::serialise: the description routine run in saving mode on
\* an empty object, and the object written
SharedSerialise(fields, hashOrder) ==
    SharedWrite(InnerSerialisation(TRUE, SharedJSONobject(<<>>), fields).json,
                0, hashOrder)

\* there is no file of the name given
NoFile == [t |-> "no file"]

\* parseJSON(const std::string& fileName): found is what parseJSON(in)
\* reads from the file of that name, NoFile when std::ifstream cannot
\* open it
parseJSONfile(found) == IF found = NoFile THEN SharedJSON ELSE found

\* what deserialise() and load() leave: the exception thrown, the saving
\* flag, preferencesJson_ (<<>> is nullptr) and the fields
Described(thrown, flag, object, fields) ==
    [thrown |-> thrown, saving |-> flag, json |-> object, fields |-> fields]

\* Serialisable::deserialise(const std::string& source): source is given
\* to parseJSON as a std::string, which is the overload that takes a file
\* name, and the description routine runs with preferencesSaving_ = true
SharedDeserialise(found, flag, fields) ==
    LET target == parseJSONfile(found) IN
    IF target.t = "NIL" THEN Described("none", flag, <<>>, fields)
    ELSE LET done == InnerSerialisation(TRUE, target, fields) IN
         IF done.outcome = "runtime_error"
         THEN Described("runtime_error", TRUE, done.json, done.value)
         ELSE Described("none", TRUE, <<>>, done.value)

\* Serialisable::load(const std::string& fileName)
SharedLoad(found, flag, fields) ==
    LET target == parseJSONfile(found) IN
    IF target.t = "NIL" THEN Described("none", flag, <<>>, fields)
    ELSE LET done == InnerSerialisation(FALSE, target, fields) IN
         IF done.outcome = "runtime_error"
         THEN Described("runtime_error", FALSE, done.json, done.value)
         ELSE Described("none", FALSE, <<>>, done.value)

----------------------------------------------------------------------------
(* An object b written with serialise() and an object a given the text     *)
(* with deserialise(), or given the name of a file with load().  input     *)
(* holds the fields of b and what the file system has under the name that  *)
(* a is given; slot holds the fields of a; buffer is the text.             *)

FieldStrings ==
    {<<>>, <<111, 108, 100>>, <<110, 101, 119>>, <<Chars.quote>>,
     <<Chars.newline, 97>>, <<Chars.backslash>>}

\* what a file can hold: the text of an object of the class, of an object
\* without the field, of a string, or no JSON
FilesFound ==
    {NoFile, SharedJSON, InnerJSON(<<102>>), SharedJSONobject(<<>>),
     SharedJSONstring(<<102>>)}

InitShared ==
    /\ build \in {b \in Builds : /\ b.charSigned
                                 /\ b.preferred = "HALF_PRECISION"
                                 /\ b.fpConv = "indefinite"}
    /\ input \in [fields : [s : FieldStrings], found : FilesFound]
    /\ slot \in {SlotOf("object", [s |-> str]) : str \in FieldStrings}
    /\ saving \in BOOLEAN
    /\ json = <<>>
    /\ pc = "made"
    /\ mapping = <<>>
    /\ named = <<>>
    /\ buffer = <<>>
    /\ decoded = NotDecoded
    /\ handles = <<>>
    /\ heap = <<>>
    /\ called = NotCalled
    /\ aliased = {}

\* a description routine of a came to done
DescribedInto(op, done, at) ==
    /\ slot' = SlotOf("object", done.fields)
    /\ saving' = done.saving
    /\ json' = done.json
    /\ called' = Call(op, <<>>, done.thrown, [t |-> "NIL"])
    /\ pc' = at
    /\ UNCHANGED <<handles, heap, aliased, codecVars>>

\* text = b.serialise()
SerialiseShared ==
    /\ pc = "made"
    /\ buffer' = SharedSerialise(input.fields, build.hashOrder)
    /\ pc' = "text"
    /\ UNCHANGED <<build, input, mapping, named, decoded, heapVars, fieldVars>>

\* a.deserialise(text)
DeserialiseShared ==
    /\ pc = "text"
    /\ DescribedInto("deserialise",
                     SharedDeserialise(input.found, saving, ValueOf(slot)),
                     "deserialised")

\* a.load(fileName)
LoadShared ==
    /\ pc = "made"
    /\ DescribedInto("load", SharedLoad(input.found, saving, ValueOf(slot)),
                     "loaded")

NextShared == SerialiseShared \/ DeserialiseShared \/ LoadShared

SpecShared == InitShared /\ [][NextShared]_vars

\* C20: a.deserialise(b.serialise()) parses the text and runs the
\* description routine in loading mode: afterwards the saving flag is
\* false and every field of a equals the field of b.
DeserialiseLoadsText ==
    pc = "deserialised" =>
       /\ called.outcome = "none"
       /\ ~saving
       /\ ValueOf(slot) = input.fields

----------------------------------------------------------------------------
(* Values with several shapes in the dictionary.  A shape is counted when  *)
(* members of objects hold objects with the same names.  The values here   *)
(* hold n shapes under the names 'A', 'B', ...: under each an object of    *)
(* one shape whose member holds an object of the same shape again, three   *)
(* deep for the first shapes and two deep for the others.  Shapes with     *)
(* equal counts are numbered in any order.                                 *)

MaxShapes == 7

\* the object with the one member named after shape i, holding d
Shaped(i, d, charSigned) == Object1(<<96 + i>>, d, charSigned)

\* objects of shape i, one in the other, `deep` of them
RECURSIVE Nested(_, _, _)
Nested(i, deep, charSigned) ==
    IF deep = 1 THEN Shaped(i, JSONnumber(Dbl(i)), charSigned)
    ELSE Shaped(i, Nested(i, deep - 1, charSigned), charSigned)

SeveralOfEach(n, charSigned) ==
    JSONobject([k \in {Key(<<64 + j>>, charSigned) : j \in 1..n} |->
                  LET j == CHOOSE x \in 1..n : Key(<<64 + x>>, charSigned) = k
                  IN Nested(j, IF j <= (n + 1) \div 4 THEN 3 ELSE 2, charSigned)])

\* two objects of one shape side by side, one of them with a child of the
\* shape
ParentAndChild(charSigned) ==
    Object2(<<65>>, Nested(1, 2, charSigned),
            <<66>>, Nested(1, 1, charSigned), charSigned)

ShapeInputs(charSigned) ==
    {SeveralOfEach(n, charSigned) : n \in 1..MaxShapes} \cup {ParentAndChild(charSigned)}

InitShapes ==
    /\ build \in {b \in Builds : /\ b.preferred = "HALF_PRECISION"
                                 /\ b.fpConv = "indefinite"
                                 /\ b.hashOrder = "ascending"}
    /\ input \in ShapeInputs(build.charSigned)
    /\ pc = "built"
    /\ mapping = <<>>
    /\ named = <<>>
    /\ buffer = <<>>
    /\ decoded = NotDecoded
    /\ handles = <<>>
    /\ heap = <<>>
    /\ called = <<>>
    /\ aliased = {}
    /\ saving = FALSE
    /\ json = <<>>
    /\ slot = <<>>

SpecShapes == InitShapes /\ [][Next]_vars

\* the key sets of the value whose shape is in the dictionary
SharedKeySets ==
    LET sets == KeySetsIn(input) IN
    {sets[i] : i \in {j \in 1..Len(sets) : DescriptorOf(sets[j]) \in DOMAIN mapping}}

\* C21: definition on first use.  The encoder writes the descriptor of
\* every shape of the dictionary out exactly once, and the decoder reads
\* the stream to its end with, under every id, the names the encoder wrote
\* for the shape of that id.
DefinedOnFirstUse ==
    pc = "decoded" =>
       /\ decoded.err = "none"
       /\ \A keys \in SharedKeySets :
             /\ Occurrences(named, DescriptorOf(keys)) = 1
             /\ mapping[DescriptorOf(keys)] \in DOMAIN decoded.objects
             /\ decoded.objects[mapping[DescriptorOf(keys)]] = SortedKeys(keys)

\* the objects of the value with the names keys
ObjectsOfShape(keys) == Occurrences(KeySetsIn(input), keys)

\* C22: common object ids.  When every id of the dictionary is in 0..5, an
\* object of the shape with id i is written with the one tag byte 0x38 | i
\* (no other byte of these values has such a value), and the decoder
\* returns the value that was written.
CommonIdsReadBack ==
    (pc = "decoded" /\ \A d \in DOMAIN mapping :
                          mapping[d] <= CondensedInfo.MAX_COMMON_OBJECT_ID) =>
       /\ \A keys \in SharedKeySets :
             Occurrences(buffer, CondensedInfo.COMMON_OBJECT
                                     + mapping[DescriptorOf(keys)])
                = ObjectsOfShape(keys)
       /\ decoded.err = "none"
       /\ SameValue(decoded.v, input)

----------------------------------------------------------------------------
(* writeCondensed at the first object of a shape of the dictionary, and    *)
(* the decoder at the bytes written from there on.  mapping holds the      *)
(* entry of the object's shape alone, with the id that the dictionary of   *)
(* the enclosing value gave it: writeCondensed looks up no other entry     *)
(* here.  No object of the dictionary comes before this one in the         *)
(* stream, so the decoder has no id defined when it reads the tag.         *)

\* the greatest id generateObjectMapping hands out
MaxObjectId == 65535 + CondensedInfo.MAX_UNCOMMON_OBJECT_ID

ObjectIds ==
    (0..8) \cup (259..265) \cup {517, 518, 519, MaxObjectId - 1, MaxObjectId}

InitIndex ==
    /\ build \in {b \in Builds : /\ b.preferred = "HALF_PRECISION"
                                 /\ b.fpConv = "indefinite"}
    /\ input \in {Shaped(1, x, build.charSigned) :
                     x \in {JSONnumber(Dbl(1)), JSONnull}}
    /\ mapping \in {[d \in {DescriptorOf({Key(<<97>>, build.charSigned)})} |-> i] :
                       i \in ObjectIds}
    /\ pc = "mapped"
    /\ named = <<>>
    /\ buffer = <<>>
    /\ decoded = NotDecoded
    /\ handles = <<>>
    /\ heap = <<>>
    /\ called = <<>>
    /\ aliased = {}
    /\ saving = FALSE
    /\ json = <<>>
    /\ slot = <<>>

\* writeCondensed(source, buffer, mapping)
WriteMapped ==
    /\ pc = "mapped"
    /\ LET done == serialiseFrom(input, Env(mapping)) IN
          /\ buffer' = done.buffer
          /\ named' = done.named
    /\ pc' = "encoded"
    /\ UNCHANGED <<build, input, mapping, decoded, heapVars, fieldVars>>

NextIndex == WriteMapped \/ Deserialise

SpecIndex == InitIndex /\ [][NextIndex]_vars

\* the id of the object's shape
IdOfInput == mapping[DescriptorOf(DOMAIN input.o)]

\* C23: uncommon and rare object ids.  An id i in 6..261 is written as the
\* tag 0x3E and the byte i - 6, an id from 262 up as the tag 0x3F and
\* i - 262 in two bytes, the high byte first; the decoder reads the id
\* back as i.
UncommonAndRareIdsReadBack ==
    (pc = "decoded" /\ IdOfInput > CondensedInfo.MAX_COMMON_OBJECT_ID) =>
       /\ IdOfInput <= 261 =>
             SubSeq(buffer, 1, 2) = <<62, IdOfInput - 6>>
       /\ IdOfInput >= 262 =>
             SubSeq(buffer, 1, 3) = <<63, (IdOfInput - 262) \div 256,
                                      (IdOfInput - 262) % 256>>
       /\ decoded.err = "none"
       /\ DOMAIN decoded.objects = {IdOfInput}

----------------------------------------------------------------------------
(* Objects with a name that holds a byte outside 1..127.  The names are    *)
(* what the build's String constructor keeps of the bytes the caller gave. *)

TableNames ==
    {<<195>>, <<195, 169>>, <<97, 233>>, <<>>, <<97>>,
     <<233>> \o Letters(BREAKPOINT)}

\* an object with the names given, the i-th name in std::string order
\* holding the number i
Numbered(names) ==
    LET ordered == SortedKeys(names) IN
    JSONobject([k \in names |->
                  JSONnumber(Dbl(CHOOSE i \in 1..Len(ordered) : ordered[i] = k))])

HasHighByte(name) == \E i \in 1..Len(name) : name[i] \notin 1..127

TableInputs(charSigned) ==
    {Numbered({Key(k, charSigned) : k \in given}) :
        given \in {chosen \in SUBSET TableNames :
                      /\ Cardinality(chosen) \in 1..3
                      /\ \E k \in chosen : HasHighByte(Key(k, charSigned))}}

InitTable ==
    /\ build \in {b \in Builds : /\ b.preferred = "HALF_PRECISION"
                                 /\ b.fpConv = "indefinite"}
    /\ input \in TableInputs(build.charSigned)
    /\ pc = "built"
    /\ mapping = <<>>
    /\ named = <<>>
    /\ buffer = <<>>
    /\ decoded = NotDecoded
    /\ handles = <<>>
    /\ heap = <<>>
    /\ called = <<>>
    /\ aliased = {}
    /\ saving = FALSE
    /\ json = <<>>
    /\ slot = <<>>

SpecTable == InitTable /\ [][Next]_vars

\* the hashtable form of an object whose non-empty names come in the order
\* given
TableForm(object, order) ==
    <<CondensedInfo.HASHTABLE>>
    \o Flatten([i \in 1..Len(order) |-> order[i] \o <<CondensedInfo.TERMINATOR>>])
    \o (IF <<>> \in DOMAIN object THEN <<CondensedInfo.TERMINATOR>> ELSE <<>>)
    \o <<CondensedInfo.TERMINATOR>>
    \o Flatten([i \in 1..Len(order) |-> serialise(object[order[i]], Env(<<>>))])
    \o (IF <<>> \in DOMAIN object THEN serialise(object[<<>>], Env(<<>>)) ELSE <<>>)

\* the orders of the non-empty names of an object
NameOrders(object) ==
    LET names == DOMAIN object \ {<<>>}
        n == Cardinality(names)
    IN {order \in [1..n -> names] : \A i, j \in 1..n : i # j => order[i] # order[j]}

\* C24: hashtable form.  An object with a name that holds a byte outside
\* 1..127 is written as 0x37, every non-empty name with a 0x00 after it,
\* one more 0x00 when the empty name is present, a final 0x00, and the
\* values in the order of the names, the empty name's value last; the
\* decoder rebuilds the object from these bytes.
HashtableReadBack ==
    pc = "decoded" =>
       /\ \E order \in NameOrders(input.o) : buffer = TableForm(input.o, order)
       /\ decoded.err = "none"
       /\ SameValue(decoded.v, input)

----------------------------------------------------------------------------
(* The half-precision form of the binary codec: numbers with a fraction,  *)
(* inside and at the edges of the range the encoder gives two bytes, and   *)
(* the values that are not finite.                                         *)

HalfInputs ==
    FractionInputs \cup NonFiniteInputs
    \cup {MIN_HALF_PRECISION_POSITIVE,
          BitsOfBytes(<<37, 153, 183, 128, 0, 16, 16, 62>>),       \* 9.34961e-10
          BitsOfBytes(<<149, 214, 38, 232, 11, 46, 17, 62>>),      \* 1e-9
          BitsOfBytes(<<0, 0, 8, 80, 59, 170, 255, 65>>),          \* 8.5e9 + 0.5
          BitsOfBytes(<<110, 134, 27, 240, 249, 33, 9, 64>>),      \* 3.14159
          BitsOfBytes(<<173, 250, 92, 109, 69, 74, 147, 192>>)}    \* -1234.5678

InitHalf ==
    /\ build \in Builds
    /\ input \in {JSONnumber(d) : d \in HalfInputs}
    /\ pc = "built"
    /\ mapping = <<>>
    /\ named = <<>>
    /\ buffer = <<>>
    /\ decoded = NotDecoded
    /\ handles = <<>>
    /\ heap = <<>>
    /\ called = <<>>
    /\ aliased = {}
    /\ saving = FALSE
    /\ json = <<>>
    /\ slot = <<>>

SpecHalf == InitHalf /\ [][Next]_vars

\* the number was written with the half-precision tag
InHalfForm ==
    /\ buffer # <<>>
    /\ ByteAnd(buffer[1], CondensedInfo.HALF_PRECISION_FLOAT) # 0

\* the double with the sign and exponent of x and the top 8 bits of its
\* mantissa
Truncated(x) ==
    MkDouble(DSign(x), DExp(x), Zeros(44) \o SubSeq(DMant(x), 45, 52))

\* C25: 15-bit half form.  Whenever a Number x is written in the half form
\* the two bytes are 0x80 | sign << 6 | (biased exponent - 0x3e0), with the
\* difference in 0..63, and the mantissa bits 51..44; decoding them gives
\* the double with the sign and exponent of x and the mantissa cut to its
\* top 8 bits.
HalfFormExact ==
    (pc = "decoded" /\ InHalfForm) =>
       LET x == number(input) IN
       /\ DExp(x) - 992 \in 0..63
       /\ buffer = <<CondensedInfo.HALF_PRECISION_FLOAT + 64 * DSign(x)
                        + (DExp(x) - 992),
                     Field(x, 44, 51)>>
       /\ decoded.err = "none"
       /\ decoded.v.t = "NUMBER"
       /\ number(decoded.v) = Truncated(x)

\* the same for the numbers that are not NaN
FiniteHalfFormExact == IsNaN(number(input)) \/ HalfFormExact

----------------------------------------------------------------------------
(* The decoder's cursor.  decoded.pos is the byte the cursor is on when    *)
(* the outermost parseCondensed returns.                                   *)

\* a long array that is not the last element of the array `source`
LongArrayInside(source) ==
    /\ source.t = "ARRAY"
    /\ \E i \in 1..(Len(source.a) - 1) :
          /\ source.a[i].t = "ARRAY"
          /\ Len(source.a[i].a) >= CondensedInfo.MAX_SHORT_ARRAY_SIZE

\* C26: decoder cursor invariant.  A parseCondensed that returns leaves the
\* cursor on the last byte of the value's encoding, for every tag form, so
\* a value that follows a long array in an enclosing array is decoded from
\* its own first byte.
CursorOnLastByte ==
    pc = "decoded" =>
       /\ decoded.err = "none" => decoded.pos = Len(buffer)
       /\ LongArrayInside(input) =>
             /\ decoded.err = "none"
             /\ SameValue(decoded.v, input)

\* the same with the long arrays left out
CursorOnLastByteElsewhere ==
    (pc = "decoded" /\ decoded.err = "none" /\ buffer[1] # CondensedInfo.LONG_ARRAY
        /\ ~LongArrayInside(input))
       => decoded.pos = Len(buffer)

----------------------------------------------------------------------------
(* Strings in the text codec: a String value, and the names of an object   *)
(* whose members are null.                                                 *)

\* the strings the text of `source` is made from, when it is a String or
\* an object of nulls
WrittenStrings(source) ==
    CASE source.t = "STRING" -> {source.s}
      [] source.t = "OBJECT" /\ (\A k \in DOMAIN source.o : source.o[k].t = "NIL")
            -> DOMAIN source.o
      [] OTHER -> {}

QuoteFree(str) == \A i \in 1..Len(str) : str[i] # Chars.quote

\* C27: for every string without a double quote, writing it as a String
\* value and as an object's name and reading the text gives the string
\* again; a backslash and a newline inside a String value survive.
QuoteFreeStringsSurvive ==
    (/\ pc = "parsed"
     /\ WrittenStrings(input) # {}
     /\ \A str \in WrittenStrings(input) : QuoteFree(str))
       => (decoded.err = "none" /\ SameValue(decoded.v, input))

\* the same for the strings that hold no backslash either
PlainStringsSurvive ==
    (\E str \in WrittenStrings(input) : \E i \in 1..Len(str) : str[i] = Chars.backslash)
    \/ QuoteFreeStringsSurvive

----------------------------------------------------------------------------
(* Serialisable::JSONdouble of the earlier serialisable.hpp: a field of a  *)
(* floating point type is saved as a JSONdouble with a precision hint,     *)
(* written in the condensed form and loaded from it.                       *)

\* FloatingHint<T>::hint()
FloatingHint(T) == IF T = "double" THEN "DOUBLE_PRECISION" ELSE "ABSENT"

\* Serialiser<floating point>::serialise
serialiseFloating(value, T) == [value |-> value, hint |-> FloatingHint(T)]

\* JSONdouble::updateCondensedSizeHint: the value of _hint it leaves
updateCondensedSizeHint(value, preferred) ==
    LET triedBinary == value
        tried == Fabs(value)
        positive == DLessPos(Zeros(64), tried)
    IN IF DLessPos(FLT_MAX, tried) \/ (DLessPos(tried, FLT_MIN) /\ positive)
       THEN "DOUBLE_PRECISION"
       ELSE IF \/ preferred # "DOUBLE_PRECISION"
               \/ DoubleEq(FloatToDouble(DoubleToFloat(tried)), tried)
               \/ AnyBit(triedBinary, 2, 31)
       THEN (IF \/ DLessPos(MAX_HALF_PRECISION, tried)
                \/ (DLessPos(tried, MIN_HALF_PRECISION_POSITIVE) /\ positive)
             THEN "SINGLE_PRECISION"
             ELSE IF preferred = "HALF_PRECISION" \/ AnyBit(triedBinary, 2, 54)
             THEN "HALF_PRECISION"
             ELSE "SINGLE_PRECISION")
       ELSE "DOUBLE_PRECISION"

\* JSONdouble::writeCondensed
doubleWriteCondensed(made, preferred) ==
    LET hint == IF made.hint = "ABSENT"
                THEN updateCondensedSizeHint(made.value, preferred)
                ELSE made.hint
        source == made.value
        result == ByteOr(ByteOr(CondensedInfo.HALF_PRECISION_FLOAT, 64 * DSign(source)),
                         (DExp(source) - 992 + 2048) % 256)
    IN IF hint = "HALF_PRECISION" THEN <<result, Field(source, 44, 51)>>
       ELSE IF hint = "SINGLE_PRECISION"
       THEN <<CondensedInfo.FLOAT>> \o BytesOfBits(DoubleToFloat(source))
       ELSE <<CondensedInfo.DOUBLE>> \o BytesOfBits(source)

\* Serialisable::parseCondensed, the cases a JSONdouble is written in
parseCondensedDouble(data) ==
    LET lead == data[1]
        read(n) == readBytes(data, 1, n)
    IN IF data = <<>> THEN [err |-> "end"]
       ELSE IF ByteAnd(lead, CondensedInfo.HALF_PRECISION_FLOAT) # 0
       THEN (IF read(1).err # "none" THEN [err |-> "end"]
             ELSE [err |-> "none",
                   value |-> MkDouble(BitAt(lead, 6), 992 + ByteAnd(lead, 63),
                                      Zeros(44) \o BitsOfBytes(read(1).s)),
                   hint |-> "HALF_PRECISION"])
       ELSE IF lead = CondensedInfo.DOUBLE
       THEN (IF read(8).err # "none" THEN [err |-> "end"]
             ELSE [err |-> "none", value |-> BitsOfBytes(read(8).s),
                   hint |-> "DOUBLE_PRECISION"])
       ELSE IF lead = CondensedInfo.FLOAT
       THEN (IF read(4).err # "none" THEN [err |-> "end"]
             ELSE [err |-> "none", value |-> FloatToDouble(BitsOfBytes(read(4).s)),
                   hint |-> "SINGLE_PRECISION"])
       ELSE [err |-> "other"]

\* Serialiser<floating point>::deserialise: result = value->getDouble(),
\* held here as a double
deserialiseFloating(made, T) ==
    IF T = "double" THEN made.value ELSE FloatToDouble(DoubleToFloat(made.value))

\* the fields saved: floats, widened to double
FieldFloats ==
    {Zeros(64),                                                \* 0.0
     BitsOfBytes(<<0, 0, 0, 0, 0, 0, 0, 128>>),                \* -0.0
     BitsOfBytes(<<0, 0, 0, 0, 0, 0, 240, 63>>),               \* 1.0
     BitsOfBytes(<<0, 0, 0, 160, 153, 153, 185, 63>>),         \* 0.1f
     BitsOfBytes(<<0, 0, 0, 0, 0, 0, 248, 191>>),              \* -1.5
     BitsOfBytes(<<0, 0, 0, 0, 250, 33, 9, 64>>),              \* 3.14159f
     BitsOfBytes(<<0, 0, 0, 224, 11, 46, 17, 62>>),            \* 1e-9f
     BitsOfBytes(<<0, 0, 0, 64, 59, 170, 255, 65>>),           \* 8.5e9f
     BitsOfBytes(<<0, 0, 0, 32, 95, 160, 2, 66>>),             \* 1e10f
     BitsOfBytes(<<0, 0, 0, 224, 223, 124, 219, 61>>),         \* 1e-10f
     FLT_MAX, FLT_MIN}

InitField ==
    /\ build \in {b \in Builds : /\ b.charSigned
                                 /\ b.fpConv = "indefinite"
                                 /\ b.hashOrder = "ascending"}
    /\ input \in [held : FieldFloats, T : {"float", "double"}]
    /\ pc = "held"
    /\ mapping = <<>>
    /\ named = <<>>
    /\ buffer = <<>>
    /\ decoded = NotDecoded
    /\ handles = <<>>
    /\ heap = <<>>
    /\ called = <<>>
    /\ aliased = {}
    /\ saving = FALSE
    /\ json = <<>>
    /\ slot = <<>>

\* Serialiser<T>::serialise(field)->condensed()
Condensed ==
    /\ pc = "held"
    /\ buffer' = doubleWriteCondensed(serialiseFloating(input.held, input.T),
                                      build.preferred)
    /\ pc' = "condensed"
    /\ UNCHANGED <<build, input, mapping, named, decoded, heapVars, fieldVars>>

\* Serialiser<T>::deserialise(field, Serialisable::parseCondensed(bytes))
ParseCondensed ==
    /\ pc = "condensed"
    /\ LET made == parseCondensedDouble(buffer) IN
       decoded' = IF made.err # "none" THEN made
                  ELSE [err |-> "none", field |-> deserialiseFloating(made, input.T)]
    /\ pc' = "loaded"
    /\ UNCHANGED <<build, input, mapping, named, buffer, heapVars, fieldVars>>

NextField == Condensed \/ ParseCondensed

SpecField == InitField /\ [][NextField]_vars

\* the 24 leading bits of the significand of a double that is a float
Significand(d) == 8388608 + Field(d, 29, 51)

\* |y - x| <= 2^-8 * |x| for floats x and y widened to double
WithinHalfError(x, y) ==
    IF IsZero(x) THEN IsZero(y)
    ELSE /\ ~IsZero(y)
         /\ DSign(y) = DSign(x)
         /\ DExp(y) - DExp(x) \in {-1, 0, 1}
         /\ LET X == Significand(x) * (IF DExp(x) >= DExp(y) THEN 2 ELSE 1)
                    * (IF DExp(x) > DExp(y) THEN 2 ELSE 1)
                Y == Significand(y) * (IF DExp(y) >= DExp(x) THEN 2 ELSE 1)
                    * (IF DExp(y) > DExp(x) THEN 2 ELSE 1)
            IN (IF X >= Y THEN X - Y ELSE Y - X) <= X \div 256

\* C28: the earlier JSONdouble codec, precision hint absent (a float
\* field), half precision preferred: the field loaded from the condensed
\* bytes is within a relative error of 2^-8 of the field saved, for every
\* finite value; 0.0 is loaded as 0.0.
FloatFieldReadBack ==
    (pc = "loaded" /\ input.T = "float" /\ build.preferred = "HALF_PRECISION") =>
       /\ decoded.err = "none"
       /\ WithinHalfError(input.held, decoded.field)

\* the same for the fields that are not zero
NonZeroFloatFieldReadBack == IsZero(input.held) \/ FloatFieldReadBack

----------------------------------------------------------------------------
(* Copy assignment from the handle itself or from a handle that lives in   *)
(* its own payload: v = v, v = v[0], v = v["k"].  called records the       *)
(* assignment, after which the run is over.                                *)

\* the payload of c, and the payloads below it down to `depth` levels, are
\* in `after` what they were in `before`
RECURSIVE Intact(_, _, _, _)
Intact(c, before, after, depth) ==
    \/ ~usesHeap(c)
    \/ depth = 0
    \/ LET at == internalAddress(c) IN
       /\ ~after[at].freed
       /\ after[at].chars = before[at].chars
       /\ after[at].array = before[at].array
       /\ after[at].object = before[at].object
       /\ \A i \in 1..Len(Held(before[at])) :
             Intact(Held(before[at])[i], before, after, depth - 1)

\* x = other, operator=(const JSON& other), where other is x itself
\* (inside = 0) or lives in the block `inside`, the payload of x.
\* cleanup() runs first; other._contents is read from the block and the
\* count of its payload raised after it.
AssignOwn(x, other, inside, from) ==
    LET cleaned == cleanup(handles[x], heap)
        freedRead == \/ inside # 0 /\ cleaned[inside].freed
                     \/ Dangling(other, cleaned)
        after == IF freedRead THEN cleaned ELSE refUp(other, cleaned)
    IN /\ CanShare(other, cleaned)
       /\ handles' = [handles EXCEPT ![x] = other]
       /\ heap' = after
       /\ pc' = IF freedRead THEN "undefined" ELSE "assigned"
       /\ called' = [op |-> "assign", from |-> from, handle |-> x, source |-> other,
                     sole |-> usesHeap(handles[x])
                              /\ heap[internalAddress(handles[x])].refs = 1,
                     freedRead |-> freedRead,
                     held |-> Intact(other, heap, after, MaxCells)]
       /\ aliased' = Without(aliased, x)
       /\ UNCHANGED <<codecVars, fieldVars>>

\* v = v
AssignSelf(x) ==
    /\ pc = "running"
    /\ handles[x] # Gone
    /\ AssignOwn(x, handles[x], 0, "self")

\* v = v[index], with the index below size()
AssignElement(x) ==
    /\ pc = "running"
    /\ handles[x] # Gone
    /\ arrayGet(handles[x], heap).thrown = "none"
    /\ LET at == internalAddress(handles[x]) IN
       \E index \in 0..(Len(heap[at].array) - 1) :
          AssignOwn(x, heap[at].array[index + 1], at, "element")

\* v = v[key], with a key the object holds
AssignMember(x) ==
    /\ pc = "running"
    /\ handles[x] # Gone
    /\ objectGet(handles[x], heap).thrown = "none"
    /\ LET at == internalAddress(handles[x]) IN
       \E key \in DOMAIN heap[at].object :
          AssignOwn(x, heap[at].object[key], at, "member")

NextOwn ==
    \E x \in Handles :
       \/ Construct(x)
       \/ ConstructString(x)
       \/ ConstructArray(x)
       \/ ConstructObject(x)
       \/ PushBack(x)
       \/ AssignSelf(x)
       \/ AssignElement(x)
       \/ AssignMember(x)
       \/ \E y \in Handles :
             \/ CopyConstruct(x, y)
             \/ KeyAssign(x, y)

SpecOwn == InitHeap /\ [][NextOwn]_vars

\* C29: copy-assigning to a handle from the handle itself or from an
\* element or member of its own container reads no payload that was freed,
\* and afterwards the handle holds the value the source had before.
AssignFromOwnIsSafe ==
    called.op = "assign" =>
       /\ ~called.freedRead
       /\ pc = "assigned"
       /\ handles[called.handle] = called.source
       /\ called.held

\* the same when another handle shares the payload, or there is none
AssignFromSharedIsSafe ==
    (called.op = "assign" /\ called.sole) \/ AssignFromOwnIsSafe

----------------------------------------------------------------------------
(* The bytes the binary decoder reads, as indexes into the vector handed   *)
(* to deserialise (the first byte is 1).                                   *)

\* the error fallthrough of parseCondensed builds its message from *source
\* and *(source - 1)
MessageReads(pos) == {pos, pos - 1}

\* next() and peek() throw before the cursor is read past the end; the
\* bytes read through the cursor are those up to where it stands
CursorReads ==
    {i \in 1..decoded.pos : i <= Len(buffer) \/ decoded.err # "end"}

DecoderReads ==
    CursorReads
    \cup (IF decoded.err = "unrecognised" THEN MessageReads(decoded.pos) ELSE {})

\* C30: while decoding any byte vector, every byte the decoder reads lies
\* inside the vector, the bytes read for the message of an unrecognised
\* first tag byte included.
ReadsInsideInput ==
    pc = "decoded" => DecoderReads \subseteq 1..Len(buffer)

\* the same for the vectors whose first byte is recognised
ReadsInsideInputAfterFirst ==
    (pc = "decoded" /\ decoded.err = "unrecognised" /\ decoded.pos = 1)
    \/ ReadsInsideInput


====
